---------------------------- MODULE Spec2Model ----------------------------
(***************************************************************************)
(* A model of matthew-salter/json_to_csv:                                  *)
(*   - split_multiple_jsons  (convert_json_to_csv.py), the line scanner    *)
(*     that extracts JSON objects from a text blob;                        *)
(*   - count_keys_across_all, flatten_json and process_json_objects        *)
(*     (convert_json_to_csv.py), the flattener and the merge.              *)
(*                                                                         *)
(* Text is modelled character by character.  A character is a one-letter   *)
(* string; the characters that TLA+ strings cannot hold comfortably are    *)
(* the atoms "DQ" (double quote), "SQ" (single quote), "BS" (backslash),   *)
(* "NL" (newline), "TAB" and "SP" (space).  A Python str is a sequence of  *)
(* characters.                                                             *)
(*                                                                         *)
(* A JSON value (what json.loads returns) is a record                      *)
(*   [t, s, n, kids]                                                       *)
(* t in {"obj","list","str","num","bool","null"}; s the characters of a    *)
(* str; n the value of a num (1/0 for a bool); kids the members of an obj, *)
(* in insertion order as a Python dict keeps them, each [k |-> key,        *)
(* v |-> value], or the elements of a list, each [k |-> <<>>, v |-> elem]. *)
(***************************************************************************)
EXTENDS Integers, Sequences, FiniteSets, TLC

\* Bounds of the model.
MaxBlocks == 2
MaxObjs == 2
MaxKeyLen == 3
MaxListLen == 2
MaxCols == 3

VARIABLES
    \* ---- split_multiple_jsons ----
    src,            \* the blocks the input text was laid out from (input)
    lines,          \* text.splitlines()
    ln,             \* index of the next raw_line of the for loop
    current_block,  \* current_block
    brace_balance,  \* brace_balance
    flat_items,     \* flat_items
    snippets,       \* snippets
    finalized,      \* history: every block finalize_json_block was given,
                    \* with the objects it appended
    loose_runs,     \* history: every run finalize_loose_block wrapped, with
                    \* what closed it and the objects it appended
    spc,            \* "scan" | "trailing" | "done" | "idle"
    \* ---- count_keys_across_all / flatten_json / process_json_objects ----
    json_objects,   \* json_objects (input)
    key_total_count,\* key_total_count
    key_tracker,    \* key_tracker
    oi,             \* index of the obj process_json_objects is at
    work,           \* the (key, value) items recurse still has to visit
    flat_dict,      \* flat_dict of the running flatten_json call
    current_section,\* current_section
    sub_counter,    \* sub_counter
    current_sub_id, \* current_sub_id (None is NoneId)
    merged_flat,    \* merged_flat
    global_duplicate_counter, \* global_duplicate_counter
    rows,           \* what process_json_objects returns
    merge,          \* the setting of MERGE_JSON_SNIPPETS the run is under
    flats,          \* history: what each flatten_json call returned
    ordered_keys,   \* ordered_keys
    sheet,          \* the cells worksheet.write was given, row by row
    visited,        \* history: every leaf recurse wrote, in order
    fpc,            \* "count" | "next" | "recurse" | "done" | "sheet" | "idle"
    \* ---- format_csv: process_all_files / transform_flat_sheet_to_long ----
    entries,        \* entries, the listing (input)
    ei,             \* index of the entry the for loop is at
    df_in,          \* df_in: the rows of the sheet read
    sections,       \* sections
    subsections,    \* subsections
    report_change,  \* report_change
    todo,           \* the sorted section numbers still to emit
    out_rows,       \* out_rows
    written,        \* written
    writes,         \* history: every sheet write_sheet_to_supabase wrote
    rpc,            \* "next" | "transform" | "emit" | "write" | "done" | "idle"
    \* ---- convert_json_to_csv ----
    cpc,            \* "list" | "read" | "split" | "flatten" | "write" |
                    \* "returned" | "idle"
    outcome,        \* what convert_json_to_csv returned: "none" until it
                    \* returns, then "error" or "success"
    calls           \* history: the collaborator calls and stages so far,
                    \* each with whether it succeeded

splitVars == <<src, lines, ln, current_block, brace_balance, flat_items,
               snippets, finalized, loose_runs, spc>>
flatVars == <<json_objects, key_total_count, key_tracker, oi, work, flat_dict,
              current_section, sub_counter, current_sub_id, merged_flat,
              global_duplicate_counter, rows, merge, flats, ordered_keys, sheet, visited, fpc>>
reshapeVars == <<entries, ei, df_in, sections, subsections, report_change,
                 todo, out_rows, written, writes, rpc>>
convVars == <<cpc, outcome, calls>>
vars == <<splitVars, flatVars, reshapeVars, convVars>>

-----------------------------------------------------------------------------
\* Characters and strings

DQ == "DQ"
SQ == "SQ"
BS == "BS"
NL == "NL"
TAB == "TAB"
SP == "SP"

Whitespace == {SP, TAB, NL}
Digits == <<"0", "1", "2", "3", "4", "5", "6", "7", "8", "9">>
DigitSet == {Digits[i] : i \in 1..10}

DigitVal(c) == (CHOOSE i \in 1..10 : Digits[i] = c) - 1

RECURSIVE NatStr(_)
\* str(n) for an int n >= 0
NatStr(n) ==
    IF n < 10 THEN <<Digits[n + 1]>>
    ELSE NatStr(n \div 10) \o <<Digits[(n % 10) + 1]>>

IntStr(n) == IF n < 0 THEN <<"-">> \o NatStr(0 - n) ELSE NatStr(n)

RECURSIVE LStrip(_)
LStrip(s) ==
    IF s # <<>> /\ Head(s) \in Whitespace THEN LStrip(Tail(s)) ELSE s

RECURSIVE RStrip(_)
RStrip(s) ==
    IF s # <<>> /\ s[Len(s)] \in Whitespace
    THEN RStrip(SubSeq(s, 1, Len(s) - 1)) ELSE s

\* str.strip()
Strip(s) == RStrip(LStrip(s))

\* str.lower(), on the letters the model's inputs use
LowerChar(c) ==
    CASE c = "A" -> "a"
      [] c = "B" -> "b"
      [] c = "S" -> "s"
      [] c = "T" -> "t"
      [] c = "N" -> "n"
      [] c = "F" -> "f"
      [] OTHER -> c

Lower(s) == [i \in 1..Len(s) |-> LowerChar(s[i])]

\* str.replace(old, new) for a one-character old
Replace(s, old, new) == [i \in 1..Len(s) |-> IF s[i] = old THEN new ELSE s[i]]

\* s.startswith(p)
StartsWith(s, p) == Len(s) >= Len(p) /\ SubSeq(s, 1, Len(p)) = p

\* s.endswith(p)
EndsWith(s, p) ==
    Len(s) >= Len(p) /\ SubSeq(s, Len(s) - Len(p) + 1, Len(s)) = p

\* s.count(c) for a one-character c
Count(s, c) == Cardinality({i \in 1..Len(s) : s[i] = c})

RECURSIVE Concat(_)
\* "".join(ss)
Concat(ss) == IF ss = <<>> THEN <<>> ELSE Head(ss) \o Concat(Tail(ss))

RECURSIVE Join(_, _)
\* sep.join(ss)
Join(sep, ss) ==
    IF ss = <<>> THEN <<>>
    ELSE IF Len(ss) = 1 THEN ss[1]
    ELSE ss[1] \o sep \o Join(sep, Tail(ss))

\* All sequences over S of length 0..n
SeqsUpTo(S, n) == UNION {[1..k -> S] : k \in 0..n}

-----------------------------------------------------------------------------
\* JSON values

Null == [t |-> "null", s |-> <<>>, n |-> 0, kids |-> <<>>]
Str(s) == [t |-> "str", s |-> s, n |-> 0, kids |-> <<>>]
Num(n) == [t |-> "num", s |-> <<>>, n |-> n, kids |-> <<>>]
Bool(b) == [t |-> "bool", s |-> <<>>, n |-> IF b THEN 1 ELSE 0, kids |-> <<>>]
Obj(members) == [t |-> "obj", s |-> <<>>, n |-> 0, kids |-> members]
List(elems) ==
    [t |-> "list", s |-> <<>>, n |-> 0,
     kids |-> [i \in 1..Len(elems) |-> [k |-> <<>>, v |-> elems[i]]]]
KV(k, v) == [k |-> k, v |-> v]

IsDict(v) == v.t = "obj"
IsList(v) == v.t = "list"
Elems(v) == [i \in 1..Len(v.kids) |-> v.kids[i].v]

\* d[k] = v on a Python dict: a present key keeps its place
DictPut(d, k, v) ==
    IF \E i \in 1..Len(d) : d[i].k = k
    THEN [i \in 1..Len(d) |-> IF d[i].k = k THEN KV(k, v) ELSE d[i]]
    ELSE Append(d, KV(k, v))

DictHas(d, k) == \E i \in 1..Len(d) : d[i].k = k
DictGet(d, k) == d[CHOOSE i \in 1..Len(d) : d[i].k = k].v
DictKeys(d) == [i \in 1..Len(d) |-> d[i].k]

-----------------------------------------------------------------------------
\* json.dumps and json.loads (the standard library, as the code uses it)

RECURSIVE EscapeChars(_)
EscapeChars(s) ==
    IF s = <<>> THEN <<>>
    ELSE LET c == Head(s)
             e == CASE c = DQ -> <<BS, DQ>>
                    [] c = BS -> <<BS, BS>>
                    [] c = NL -> <<BS, "n">>
                    [] c = TAB -> <<BS, "t">>
                    [] OTHER -> <<c>>
         IN e \o EscapeChars(Tail(s))

\* json.dumps(s) for a str s
DumpsStr(s) == <<DQ>> \o EscapeChars(s) \o <<DQ>>

RECURSIVE Dumps(_)
\* json.dumps(v): one line, ", " and ": " separators
Dumps(v) ==
    CASE v.t = "str" -> DumpsStr(v.s)
      [] v.t = "num" -> IntStr(v.n)
      [] v.t = "bool" -> IF v.n = 1 THEN <<"t", "r", "u", "e">>
                         ELSE <<"f", "a", "l", "s", "e">>
      [] v.t = "null" -> <<"n", "u", "l", "l">>
      [] v.t = "list" ->
            <<"[">> \o Join(<<",", SP>>,
                            [i \in 1..Len(v.kids) |-> Dumps(v.kids[i].v)])
                    \o <<"]">>
      [] v.t = "obj" ->
            <<"{">> \o Join(<<",", SP>>,
                            [i \in 1..Len(v.kids) |->
                                DumpsStr(v.kids[i].k) \o <<":", SP>>
                                    \o Dumps(v.kids[i].v)])
                    \o <<"}">>

ParseFail == [ok |-> FALSE, v |-> Null, rest |-> <<>>]
ParseOk(v, rest) == [ok |-> TRUE, v |-> v, rest |-> rest]

RECURSIVE ParseStringBody(_, _)
\* The characters of a string literal after its opening quote.  A raw
\* control character and an unknown escape are errors, as in json.loads.
ParseStringBody(s, acc) ==
    IF s = <<>> THEN ParseFail
    ELSE LET c == Head(s) IN
         IF c = DQ THEN ParseOk(Str(acc), Tail(s))
         ELSE IF c \in {NL, TAB} THEN ParseFail
         ELSE IF c = BS THEN
            IF Len(s) < 2 THEN ParseFail
            ELSE LET e == s[2] IN
                 IF e = "n" THEN ParseStringBody(SubSeq(s, 3, Len(s)), Append(acc, NL))
                 ELSE IF e = "t" THEN ParseStringBody(SubSeq(s, 3, Len(s)), Append(acc, TAB))
                 ELSE IF e \in {BS, DQ, "/"} THEN ParseStringBody(SubSeq(s, 3, Len(s)), Append(acc, e))
                 ELSE ParseFail
         ELSE ParseStringBody(Tail(s), Append(acc, c))

RECURSIVE ParseDigits(_, _)
ParseDigits(s, acc) ==
    IF s # <<>> /\ Head(s) \in DigitSet
    THEN ParseDigits(Tail(s), acc * 10 + DigitVal(Head(s)))
    ELSE [n |-> acc, rest |-> s]

\* An integer literal: -?(0|[1-9][0-9]*)
ParseNumber(s) ==
    LET neg == s # <<>> /\ Head(s) = "-"
        t == IF neg THEN Tail(s) ELSE s
    IN IF t = <<>> \/ Head(t) \notin DigitSet THEN ParseFail
       ELSE IF Head(t) = "0" THEN ParseOk(Num(0), Tail(t))
       ELSE LET d == ParseDigits(t, 0)
            IN ParseOk(Num(IF neg THEN 0 - d.n ELSE d.n), d.rest)

RECURSIVE ParseValue(_), ParseMembers(_, _), ParseElems(_, _)

\* One JSON value at the front of s, leading whitespace skipped
ParseValue(s0) ==
    LET s == LStrip(s0) IN
    IF s = <<>> THEN ParseFail
    ELSE LET c == Head(s) IN
         CASE c = "{" ->
                LET t == LStrip(Tail(s)) IN
                IF t # <<>> /\ Head(t) = "}" THEN ParseOk(Obj(<<>>), Tail(t))
                ELSE ParseMembers(t, <<>>)
           [] c = "[" ->
                LET t == LStrip(Tail(s)) IN
                IF t # <<>> /\ Head(t) = "]" THEN ParseOk(List(<<>>), Tail(t))
                ELSE ParseElems(t, <<>>)
           [] c = DQ -> ParseStringBody(Tail(s), <<>>)
           [] c \in DigitSet \cup {"-"} -> ParseNumber(s)
           [] StartsWith(s, <<"n", "u", "l", "l">>) ->
                ParseOk(Null, SubSeq(s, 5, Len(s)))
           [] StartsWith(s, <<"t", "r", "u", "e">>) ->
                ParseOk(Bool(TRUE), SubSeq(s, 5, Len(s)))
           [] StartsWith(s, <<"f", "a", "l", "s", "e">>) ->
                ParseOk(Bool(FALSE), SubSeq(s, 6, Len(s)))
           [] OTHER -> ParseFail

\* "key": value pairs up to the closing brace; acc is the dict so far
ParseMembers(s0, acc) ==
    LET s == LStrip(s0) IN
    IF s = <<>> \/ Head(s) # DQ THEN ParseFail
    ELSE LET k == ParseStringBody(Tail(s), <<>>) IN
         IF ~k.ok THEN ParseFail
         ELSE LET a == LStrip(k.rest) IN
              IF a = <<>> \/ Head(a) # ":" THEN ParseFail
              ELSE LET v == ParseValue(Tail(a)) IN
                   IF ~v.ok THEN ParseFail
                   ELSE LET d == DictPut(acc, k.v.s, v.v)
                            r == LStrip(v.rest)
                        IN IF r = <<>> THEN ParseFail
                           ELSE IF Head(r) = "}" THEN ParseOk(Obj(d), Tail(r))
                           ELSE IF Head(r) = "," THEN ParseMembers(Tail(r), d)
                           ELSE ParseFail

\* values up to the closing bracket; acc is the list so far
ParseElems(s0, acc) ==
    LET v == ParseValue(s0) IN
    IF ~v.ok THEN ParseFail
    ELSE LET l == Append(acc, v.v)
             r == LStrip(v.rest)
         IN IF r = <<>> THEN ParseFail
            ELSE IF Head(r) = "]" THEN ParseOk(List(l), Tail(r))
            ELSE IF Head(r) = "," THEN ParseElems(Tail(r), l)
            ELSE ParseFail

\* json.loads(s): ok is FALSE where json.loads raises
Loads(s) ==
    LET r == ParseValue(s) IN
    IF r.ok /\ LStrip(r.rest) = <<>> THEN ParseOk(r.v, <<>>) ELSE ParseFail

-----------------------------------------------------------------------------
\* split_multiple_jsons: the input texts

\* Objects the input blocks are laid out from
SplitObjects ==
    { Obj(<<KV(<<"a">>, Num(1))>>),
      Obj(<<KV(<<"b">>, Obj(<<KV(<<"c">>, Str(<<"x">>))>>)),
            KV(<<"d">>, Num(2))>>),
      Obj(<<KV(<<"a">>, Str(<<"}">>))>>),
      Obj(<<>>) }

ObjectLayouts == {"one", "one_comma", "multi"}

\* The lines of object o written over several lines, one member a line
MultiLines(o) ==
    <<(<<"{">>)>>
    \o [i \in 1..Len(o.kids) |->
            <<SP, SP>> \o DumpsStr(o.kids[i].k) \o <<":", SP>>
                \o Dumps(o.kids[i].v)
                \o (IF i < Len(o.kids) THEN <<",">> ELSE <<>>)]
    \o <<(<<"}">>)>>

\* The lines of a loose run: the members of o, one a line, unwrapped
LooseLines(o) ==
    [i \in 1..Len(o.kids) |->
        DumpsStr(o.kids[i].k) \o <<":", SP>> \o Dumps(o.kids[i].v) \o <<",">>]

RECURSIVE Without(_, _)
Without(s, c) ==
    IF s = <<>> THEN <<>>
    ELSE IF Head(s) = c THEN Without(Tail(s), c)
    ELSE <<Head(s)>> \o Without(Tail(s), c)

Block(kind, objs) == [kind |-> kind, objs |-> objs]

\* A well-formed object block, in one of the layouts
ObjectBlocks ==
    {Block(l, <<o>>) : l \in ObjectLayouts, o \in SplitObjects}

\* A block that fails to parse: its closing brace missing, one brace too
\* many, or its colon missing (braces balanced)
MalformedKinds == {"unclosed", "extra_close", "no_colon"}
MalformedBlocks ==
    {Block(k, <<Obj(<<KV(<<"m">>, Num(0))>>)>>) : k \in MalformedKinds}

\* A block that is a JSON array of objects
ArrayBlocks ==
    {Block("array", <<Obj(<<KV(<<"a">>, Num(1))>>),
                      Obj(<<KV(<<"b">>, Num(2))>>)>>)}

\* Lines outside any brace block: a loose run, a loose run with a line
\* that is no "key": value in its middle, a loose line whose value is an
\* unterminated string, a blank line, a line of plain text
LooseBlocks ==
    {Block("loose", <<Obj(<<KV(<<"k">>, Num(1)), KV(<<"l">>, Str(<<"y">>))>>)>>),
     Block("loose_split",
           <<Obj(<<KV(<<"k">>, Num(1)), KV(<<"l">>, Str(<<"y">>))>>)>>),
     Block("loose_bad", <<>>),
     Block("blank", <<>>),
     Block("junk", <<>>)}

BlockPool == ObjectBlocks \cup MalformedBlocks \cup ArrayBlocks \cup LooseBlocks

BlockLines(b) ==
    CASE b.kind = "one" -> <<Dumps(b.objs[1])>>
      [] b.kind = "one_comma" -> <<Dumps(b.objs[1]) \o <<",">>>>
      [] b.kind = "multi" -> MultiLines(b.objs[1])
      [] b.kind = "unclosed" ->
            LET d == Dumps(b.objs[1]) IN <<SubSeq(d, 1, Len(d) - 1)>>
      [] b.kind = "extra_close" -> <<Dumps(b.objs[1]) \o <<"}">>>>
      [] b.kind = "no_colon" -> <<Without(Dumps(b.objs[1]), ":")>>
      [] b.kind = "array" -> <<Dumps(List(b.objs))>>
      [] b.kind = "loose" -> LooseLines(b.objs[1])
      [] b.kind = "loose_split" ->
            <<LooseLines(b.objs[1])[1], <<"h", "i", SP, SP>>,
              LooseLines(b.objs[1])[2]>>
      [] b.kind = "loose_bad" -> <<(<<DQ, "k", DQ, ":", SP, DQ, "y">>)>>
      [] b.kind = "blank" -> <<(<<>>)>>
      [] b.kind = "junk" -> <<(<<"h", "i", SP, SP>>)>>

\* text.splitlines() of the text the blocks make
TextLines(blocks) == Concat([i \in 1..Len(blocks) |-> BlockLines(blocks[i])])

-----------------------------------------------------------------------------
\* split_multiple_jsons

\* [obj for obj in recovered if isinstance(obj, dict)]
DictsOf(v) == SelectSeq(Elems(v), IsDict)

\* block.strip(), one trailing comma removed
TrimBlock(cb) ==
    LET block == Strip(cb) IN
    IF EndsWith(block, <<",">>)
    THEN RStrip(SubSeq(block, 1, Len(block) - 1)) ELSE block

\* The objects finalize_json_block appends to snippets for current_block cb
BlockObjects(cb) ==
    LET block == TrimBlock(cb)
        parsed == Loads(block)
        recovered == Loads(<<"[">> \o block \o <<"]">>)
    IN IF cb = <<>> THEN <<>>
       ELSE IF parsed.ok /\ IsDict(parsed.v) THEN <<parsed.v>>
       ELSE IF recovered.ok THEN DictsOf(recovered.v)
       ELSE <<>>

\* The objects finalize_loose_block appends, one for each of the items
LooseObjects_per_item(fi) ==
    [i \in 1..Len(fi) |-> Loads(<<"{">> \o fi[i] \o <<"}">>).v]

\* The objects finalize_loose_block appends to snippets for flat_items fi
LooseObjects(fi) ==
    LET obj_text == <<"{", NL>> \o Join(<<",", NL>>, fi) \o <<NL, "}">>
        parsed == Loads(obj_text)
    IN IF fi = <<>> THEN <<>>
       ELSE IF parsed.ok /\ IsDict(parsed.v) THEN <<parsed.v>>
       ELSE <<>>

\* What the history keeps of a finalize_loose_block call on flat_items fi
\* (none when fi is empty: the call returns at once)
LooseRun(fi, boundary) ==
    IF fi = <<>> THEN <<>>
    ELSE <<[items |-> fi, boundary |-> boundary, objs |-> LooseObjects(fi)]>>

\* Index of the first c in s at or after position i; 0 if none
FirstAt(s, c, i) ==
    IF \E j \in i..Len(s) : s[j] = c
    THEN CHOOSE j \in i..Len(s) : s[j] = c /\ \A h \in i..(j - 1) : s[h] # c
    ELSE 0

\* group(2) of loose_kv_re for the text a after the colon: the lazy .+?
\* leaves one trailing comma, and the whitespace before it, out
LooseValue(a) ==
    IF Len(a) >= 2 /\ a[Len(a)] = ","
    THEN RStrip(SubSeq(a, 1, Len(a) - 1)) ELSE a

\* loose_kv_re.match(line): ok, group(1), group(2)
LooseMatch(line) ==
    LET s == LStrip(line)
        q == FirstAt(s, DQ, 2)
        afterKey == IF q = 0 THEN <<>> ELSE LStrip(SubSeq(s, q + 1, Len(s)))
        a == IF afterKey = <<>> THEN <<>> ELSE Strip(Tail(afterKey))
    IN IF s # <<>> /\ s[1] = DQ /\ q >= 3
          /\ afterKey # <<>> /\ afterKey[1] = ":" /\ a # <<>>
       THEN [ok |-> TRUE, key |-> SubSeq(s, 2, q - 1), val |-> LooseValue(a)]
       ELSE [ok |-> FALSE, key |-> <<>>, val |-> <<>>]

AllDigits(s) == s # <<>> /\ \A i \in 1..Len(s) : s[i] \in DigitSet

\* re.match(r'^-?\d+(\.\d+)?$', s)
IsNumberText(s) ==
    LET u == IF s # <<>> /\ s[1] = "-" THEN Tail(s) ELSE s
        d == FirstAt(u, ".", 1)
    IN IF d = 0 THEN AllDigits(u)
       ELSE AllDigits(SubSeq(u, 1, d - 1)) /\ AllDigits(SubSeq(u, d + 1, Len(u)))

RECURSIVE LStripChar(_, _)
LStripChar(s, c) ==
    IF s # <<>> /\ Head(s) = c THEN LStripChar(Tail(s), c) ELSE s

RECURSIVE RStripChar(_, _)
RStripChar(s, c) ==
    IF s # <<>> /\ s[Len(s)] = c
    THEN RStripChar(SubSeq(s, 1, Len(s) - 1), c) ELSE s

\* The item the loop appends to flat_items for a matching line
LooseItem(m) ==
    LET raw_val == Strip(m.val)
        valid == \/ StartsWith(raw_val, <<DQ>>)
                 \/ StartsWith(raw_val, <<"{">>)
                 \/ StartsWith(raw_val, <<"[">>)
                 \/ raw_val \in {<<"t", "r", "u", "e">>,
                                 <<"f", "a", "l", "s", "e">>,
                                 <<"n", "u", "l", "l">>}
                 \/ IsNumberText(raw_val)
        val == IF valid THEN raw_val
               ELSE DumpsStr(RStripChar(LStripChar(raw_val, DQ), DQ))
    IN DumpsStr(m.key) \o <<":", SP>> \o val

\* line = raw_line.strip() of the line the loop is at
CurLine == Strip(lines[ln])

Finalized(cb) == [block |-> cb, emitted |-> BlockObjects(cb)]

\* MERGE_JSON_SNIPPETS as the module sets it: merge all objects into one row
MERGE_JSON_SNIPPETS == TRUE

\* current_sub_id = None
NoneId == <<"None">>

\* The flattener, not running
FlatIdle ==
    /\ json_objects = <<>>
    /\ key_total_count = <<>>
    /\ key_tracker = <<>>
    /\ oi = 0
    /\ work = <<>>
    /\ flat_dict = <<>>
    /\ current_section = 0
    /\ sub_counter = 0
    /\ current_sub_id = NoneId
    /\ merged_flat = <<>>
    /\ global_duplicate_counter = <<>>
    /\ rows = <<>>
    /\ merge = MERGE_JSON_SNIPPETS
    /\ flats = <<>>
    /\ ordered_keys = <<>>
    /\ sheet = <<>>
    /\ visited = <<>>
    /\ fpc = "idle"

\* The reshaper, not running
ReshapeIdle ==
    /\ entries = <<>>
    /\ ei = 0
    /\ df_in = <<>>
    /\ sections = <<>>
    /\ subsections = <<>>
    /\ report_change = Null
    /\ todo = <<>>
    /\ out_rows = <<>>
    /\ written = <<>>
    /\ writes = <<>>
    /\ rpc = "idle"

\* convert_json_to_csv, not running
ConvIdle ==
    /\ cpc = "idle"
    /\ outcome = "none"
    /\ calls = <<>>

SplitInit ==
    /\ src \in SeqsUpTo(BlockPool, MaxBlocks) \ {<<>>}
    /\ lines = TextLines(src)
    /\ ln = 1
    /\ current_block = <<>>
    /\ brace_balance = 0
    /\ flat_items = <<>>
    /\ snippets = <<>>
    /\ finalized = <<>>
    /\ loose_runs = <<>>
    /\ spc = "scan"
    /\ FlatIdle
    /\ ReshapeIdle
    /\ ConvIdle

\* A line while inside a brace block: accumulate, close at balance 0
InBlockLine ==
    /\ spc = "scan" /\ ln <= Len(lines)
    /\ current_block # <<>>
    /\ LET cb == current_block \o <<NL>> \o CurLine
           bal == brace_balance + Count(CurLine, "{") - Count(CurLine, "}")
       IN /\ brace_balance' = bal
          /\ IF bal = 0
             THEN /\ snippets' = snippets \o BlockObjects(cb)
                  /\ finalized' = Append(finalized, Finalized(cb))
                  /\ current_block' = <<>>
             ELSE /\ current_block' = cb
                  /\ UNCHANGED <<snippets, finalized>>
    /\ ln' = ln + 1
    /\ UNCHANGED <<src, lines, flat_items, spc>>
    /\ UNCHANGED loose_runs
    /\ UNCHANGED <<flatVars, reshapeVars, convVars>>

\* A line with an opening brace while outside a block: the loose run is
\* finalized, the block starts, and closes at once at balance 0
StartBlock ==
    /\ spc = "scan" /\ ln <= Len(lines)
    /\ current_block = <<>>
    /\ Count(CurLine, "{") > 0
    /\ LET bal == Count(CurLine, "{") - Count(CurLine, "}")
           loose == LooseObjects(flat_items)
       IN /\ brace_balance' = bal
          /\ flat_items' = <<>>
          /\ IF bal = 0
             THEN /\ snippets' = snippets \o loose \o BlockObjects(CurLine)
                  /\ finalized' = Append(finalized, Finalized(CurLine))
                  /\ current_block' = <<>>
             ELSE /\ snippets' = snippets \o loose
                  /\ current_block' = CurLine
                  /\ UNCHANGED finalized
    /\ ln' = ln + 1
    /\ UNCHANGED <<src, lines, spc>>
    /\ loose_runs' = loose_runs \o LooseRun(flat_items, "brace")
    /\ UNCHANGED <<flatVars, reshapeVars, convVars>>

\* A blank line outside a block finalizes the loose run
BlankLine ==
    /\ spc = "scan" /\ ln <= Len(lines)
    /\ current_block = <<>>
    /\ Count(CurLine, "{") = 0
    /\ CurLine = <<>>
    /\ snippets' = snippets \o LooseObjects(flat_items)
    /\ flat_items' = <<>>
    /\ ln' = ln + 1
    /\ UNCHANGED <<src, lines, current_block, brace_balance, finalized, spc>>
    /\ loose_runs' = loose_runs \o LooseRun(flat_items, "blank")
    /\ UNCHANGED <<flatVars, reshapeVars, convVars>>

\* A "key": value line outside a block joins the loose run
LooseLine ==
    /\ spc = "scan" /\ ln <= Len(lines)
    /\ current_block = <<>>
    /\ Count(CurLine, "{") = 0
    /\ CurLine # <<>>
    /\ LooseMatch(CurLine).ok
    /\ flat_items' = Append(flat_items, LooseItem(LooseMatch(CurLine)))
    /\ ln' = ln + 1
    /\ UNCHANGED <<src, lines, current_block, brace_balance, snippets,
                   finalized, spc>>
    /\ UNCHANGED loose_runs
    /\ UNCHANGED <<flatVars, reshapeVars, convVars>>

\* Any other line outside a block ends the loose run
OtherLine ==
    /\ spc = "scan" /\ ln <= Len(lines)
    /\ current_block = <<>>
    /\ Count(CurLine, "{") = 0
    /\ CurLine # <<>>
    /\ ~LooseMatch(CurLine).ok
    /\ snippets' = snippets \o LooseObjects(flat_items)
    /\ flat_items' = <<>>
    /\ ln' = ln + 1
    /\ UNCHANGED <<src, lines, current_block, brace_balance, finalized, spc>>
    /\ loose_runs' = loose_runs \o LooseRun(flat_items, "other")
    /\ UNCHANGED <<flatVars, reshapeVars, convVars>>

\* After the loop: the trailing block, then the trailing loose run
Trailing ==
    /\ spc = "scan" /\ ln > Len(lines)
    /\ snippets' = snippets \o BlockObjects(current_block)
                            \o LooseObjects(flat_items)
    /\ finalized' = IF current_block # <<>>
                    THEN Append(finalized, Finalized(current_block))
                    ELSE finalized
    /\ current_block' = <<>>
    /\ flat_items' = <<>>
    /\ spc' = "done"
    /\ UNCHANGED <<src, lines, ln, brace_balance>>
    /\ loose_runs' = loose_runs \o LooseRun(flat_items, "eof")
    /\ UNCHANGED <<flatVars, reshapeVars, convVars>>

SplitNext ==
    \/ InBlockLine
    \/ StartBlock
    \/ BlankLine
    \/ LooseLine
    \/ OtherLine
    \/ Trailing

SplitSpec == SplitInit /\ [][SplitNext]_vars

-----------------------------------------------------------------------------
\* Python's str() and repr() of the values json.loads returns

RECURSIVE ReprChars(_, _)
\* The body of repr(s) for a str s quoted with q
ReprChars(s, q) ==
    IF s = <<>> THEN <<>>
    ELSE LET c == Head(s)
             e == CASE c = BS -> <<BS, BS>>
                    [] c = NL -> <<BS, "n">>
                    [] c = TAB -> <<BS, "t">>
                    [] c = q -> <<BS, q>>
                    [] OTHER -> <<c>>
         IN e \o ReprChars(Tail(s), q)

\* repr(s): single quotes, unless s holds a single and no double quote
ReprStr(s) ==
    LET q == IF Count(s, SQ) > 0 /\ Count(s, DQ) = 0 THEN DQ ELSE SQ
    IN <<q>> \o ReprChars(s, q) \o <<q>>

RECURSIVE PyRepr(_)
PyRepr(v) ==
    CASE v.t = "str" -> ReprStr(v.s)
      [] v.t = "num" -> IntStr(v.n)
      [] v.t = "bool" -> IF v.n = 1 THEN <<"T", "r", "u", "e">>
                         ELSE <<"F", "a", "l", "s", "e">>
      [] v.t = "null" -> <<"N", "o", "n", "e">>
      [] v.t = "list" ->
            <<"[">> \o Join(<<",", SP>>,
                            [i \in 1..Len(v.kids) |-> PyRepr(v.kids[i].v)])
                    \o <<"]">>
      [] v.t = "obj" ->
            <<"{">> \o Join(<<",", SP>>,
                            [i \in 1..Len(v.kids) |->
                                ReprStr(v.kids[i].k) \o <<":", SP>>
                                    \o PyRepr(v.kids[i].v)])
                    \o <<"}">>

\* str(v)
PyStr(v) == IF v.t = "str" THEN v.s ELSE PyRepr(v)

RECURSIVE EscapeNewlines(_)
\* s.replace("\n", "\\n")
EscapeNewlines(s) ==
    IF s = <<>> THEN <<>>
    ELSE (IF Head(s) = NL THEN <<BS, "n">> ELSE <<Head(s)>>)
         \o EscapeNewlines(Tail(s))

-----------------------------------------------------------------------------
\* count_keys_across_all

\* d.get(k, default) on a dict
DictGetOr(d, k, default) == IF DictHas(d, k) THEN DictGet(d, k) ELSE default

\* counter[k] += 1 on a Counter or a defaultdict(int)
Increment(d, k) == DictPut(d, k, DictGetOr(d, k, 0) + 1)

\* formatted, in extract_keys
extract_keys_formatted(key) ==
    Replace(Replace(Lower(Strip(key)), SP, "_"), "-", "_")

RECURSIVE extract_keys(_, _), extract_keys_each(_, _, _)

\* extract_keys(item), on the counts kc so far
extract_keys(item, kc) ==
    IF IsDict(item) THEN extract_keys_each(item.kids, TRUE, kc)
    ELSE IF IsList(item) THEN extract_keys_each(item.kids, FALSE, kc)
    ELSE kc

\* The for loop of extract_keys over the members of a dict (counted) or
\* the elements of a list
extract_keys_each(kids, counted, kc) ==
    IF kids = <<>> THEN kc
    ELSE LET h == Head(kids)
             kc1 == IF counted
                    THEN Increment(kc, extract_keys_formatted(h.k)) ELSE kc
         IN extract_keys_each(Tail(kids), counted, extract_keys(h.v, kc1))

RECURSIVE count_keys_across_all_from(_, _)
count_keys_across_all_from(objs, kc) ==
    IF objs = <<>> THEN kc
    ELSE count_keys_across_all_from(Tail(objs), extract_keys(Head(objs), kc))

count_keys_across_all(objs) == count_keys_across_all_from(objs, <<>>)

-----------------------------------------------------------------------------
\* flatten_json

\* format_key with the hyphen left in place
format_key_keeps_hyphen(k) == Replace(Lower(Strip(k)), SP, "_")

format_key(k) == Replace(Replace(Lower(Strip(k)), SP, "_"), "-", "_")

clean_value(v) == IF v.t = "str" THEN EscapeNewlines(v.s) ELSE PyStr(v)

\* list_val joined by a real newline instead of the escaped one
list_val_newline_joined(value) ==
    Join(<<NL>>,
         [i \in 1..Len(value.kids) |->
            IF value.kids[i].v.t = "str"
            THEN EscapeNewlines(value.kids[i].v.s)
            ELSE PyStr(value.kids[i].v)])

\* list_val, the cell of a list-valued key
list_val(value) ==
    Join(<<BS, "n">>,
         [i \in 1..Len(value.kids) |->
            IF value.kids[i].v.t = "str"
            THEN EscapeNewlines(value.kids[i].v.s)
            ELSE PyStr(value.kids[i].v)])

section_title == <<"s", "e", "c", "t", "i", "o", "n", "_", "t", "i", "t", "l", "e">>
sub_section_title == <<"s", "u", "b", "_">> \o section_title

RECURSIVE recurse_items(_), recurse_items_each(_)

\* The (key, value) items recurse(d) visits at its own level, in order:
\* the members of a dict, or those of each element of a list in turn
recurse_items(d) ==
    IF IsDict(d) THEN d.kids
    ELSE IF IsList(d) THEN recurse_items_each(d.kids)
    ELSE <<>>

recurse_items_each(kids) ==
    IF kids = <<>> THEN <<>>
    ELSE recurse_items(Head(kids).v) \o recurse_items_each(Tail(kids))

\* the id with the section left out of it
SubId_without_section(section, sub) == NatStr(0) \o <<".">> \o NatStr(sub)

\* f"{current_section}.{sub_counter}"
SubId(section, sub) == NatStr(section) \o <<".">> \o NatStr(sub)

\* col_name with the occurrence number appended whatever the total
CountedName_always(f_key, count, total) == f_key \o <<"_">> \o NatStr(count)

\* f"{f_key}_{count}" if total > 1 else f_key
CountedName(f_key, count, total) ==
    IF total > 1 THEN f_key \o <<"_">> \o NatStr(count) ELSE f_key

\* col_name of a list-valued or scalar key
LeafName(f_key, count, total, sub_id) ==
    IF StartsWith(f_key, <<"s", "u", "b", "_">>) /\ sub_id # NoneId
    THEN f_key \o <<"_">> \o sub_id
    ELSE CountedName(f_key, count, total)

-----------------------------------------------------------------------------
\* The batches the flattener is given

K_a == <<"a">>
K_sub_a == <<"s", "u", "b", "_", "a">>

FlatObjects ==
    { Obj(<<KV(K_a, Str(<<"x">>))>>),
      Obj(<<KV(K_a, Null)>>),
      Obj(<<KV(<<"b">>, Obj(<<KV(K_a, Num(1))>>))>>),
      Obj(<<KV(<<"a", "_", "1">>, Num(0)), KV(K_a, Bool(TRUE))>>),
      Obj(<<KV(<<"x">>, Num(1)),
            KV(<<"i">>, List(<<Obj(<<KV(<<"x">>, Num(2))>>)>>))>>),
      Obj(<<KV(<<"S", "e", "c", "t", "i", "o", "n", SP, "T", "i", "t", "l", "e">>,
               Str(<<"S">>)),
            KV(<<"S", "u", "b", "-", "S", "e", "c", "t", "i", "o", "n", SP,
                 "T", "i", "t", "l", "e">>, Str(<<"T">>)),
            KV(K_sub_a, List(<<Str(<<"p">>), Str(<<"q">>)>>))>>),
      Obj(<<KV(sub_section_title, Str(<<"T">>)),
            KV(K_sub_a, Str(<<"x">>)),
            KV(<<"n">>, Obj(<<KV(K_sub_a, Str(<<"y">>))>>))>>),
      Obj(<<KV(section_title, Str(<<"U", NL, "V">>))>>),
      Obj(<<KV(sub_section_title, Str(<<"W">>)), KV(K_sub_a, Num(5))>>),
      Obj(<<KV(sub_section_title \o <<"_", "0", ".", "1", "_", "2">>,
               Str(<<"z">>)),
            KV(sub_section_title, Str(<<"T">>))>>),
      \* two sections, the first with two sub-sections, the second with a
      \* sub_ key ahead of its only sub-section
      Obj(<<KV(<<"S", "e", "c", "t", "i", "o", "n", SP, "T", "i", "t", "l", "e">>,
               Str(<<"A">>)),
            KV(sub_section_title, Str(<<"B">>)),
            KV(<<"d">>, Obj(<<KV(<<"S", "u", "b", SP>> \o section_title,
                                 Str(<<"C">>))>>)),
            KV(section_title, Str(<<"D">>)),
            KV(K_sub_a, Num(1)),
            KV(<<"s", "u", "b", "-">> \o section_title, Str(<<"E">>))>>) }

\* Keys for single-key objects: every string up to MaxKeyLen
KeyAlphabet == {"A", "b", SP, TAB, "-", "_"}
GenKeys == SeqsUpTo(KeyAlphabet, MaxKeyLen)

\* Elements for list-valued keys, and the lists up to MaxListLen of them
ListElems ==
    { Str(<<>>), Str(<<"p">>), Str(<<"p", NL, "q">>), Str(<<BS, "n">>),
      Str(<<"q", BS>>), Str(<<"n">>), Num(7), Null }
GenLists == {List(l) : l \in SeqsUpTo(ListElems, MaxListLen)}

Batches ==
    (SeqsUpTo(FlatObjects, MaxObjs) \ {<<>>})
    \cup {<<Obj(<<KV(k, Str(<<"v">>))>>)>> : k \in GenKeys}
    \cup {<<Obj(<<KV(<<"l">>, l)>>)>> : l \in GenLists}

\* The scanner, not running
SplitIdle ==
    /\ src = <<>>
    /\ lines = <<>>
    /\ ln = 0
    /\ current_block = <<>>
    /\ brace_balance = 0
    /\ flat_items = <<>>
    /\ snippets = <<>>
    /\ finalized = <<>>
    /\ loose_runs = <<>>
    /\ spc = "idle"

-----------------------------------------------------------------------------
\* convert_json_to_csv from the pre-pass on: count_keys_across_all, then
\* process_json_objects, which runs flatten_json on each object in turn

FlatInit ==
    /\ json_objects \in Batches
    /\ key_total_count = <<>>
    /\ key_tracker = <<>>
    /\ oi = 0
    /\ work = <<>>
    /\ flat_dict = <<>>
    /\ current_section = 0
    /\ sub_counter = 0
    /\ current_sub_id = NoneId
    /\ merged_flat = <<>>
    /\ global_duplicate_counter = <<>>
    /\ rows = <<>>
    /\ merge \in BOOLEAN   \* the toggle of line 13, either way
    /\ flats = <<>>
    /\ ordered_keys = <<>>
    /\ sheet = <<>>
    /\ visited = <<>>
    /\ fpc = "count"
    /\ SplitIdle
    /\ ReshapeIdle
    /\ ConvIdle

\* key_total_count = count_keys_across_all(json_objects); a fresh
\* key_tracker; process_json_objects starts with an empty merged_flat
CountKeys ==
    /\ fpc = "count"
    /\ key_total_count' = count_keys_across_all(json_objects)
    /\ key_tracker' = <<>>
    /\ merged_flat' = <<>>
    /\ global_duplicate_counter' = <<>>
    /\ oi' = 1
    /\ fpc' = "next"
    /\ UNCHANGED <<json_objects, work, flat_dict, current_section,
                   sub_counter, current_sub_id, rows, visited>>
    /\ UNCHANGED <<merge, flats, ordered_keys, sheet>>
    /\ UNCHANGED <<splitVars, reshapeVars, convVars>>

\* flatten_json(obj, key_tracker, key_total_count) is called: its locals
\* start afresh, the trackers are the caller's
BeginFlatten ==
    /\ fpc = "next" /\ oi <= Len(json_objects)
    /\ work' = recurse_items(json_objects[oi])
    /\ flat_dict' = <<>>
    /\ current_section' = 0
    /\ sub_counter' = 0
    /\ current_sub_id' = NoneId
    /\ fpc' = "recurse"
    /\ UNCHANGED <<json_objects, key_total_count, key_tracker, oi,
                   merged_flat, global_duplicate_counter, rows, visited>>
    /\ UNCHANGED <<merge, flats, ordered_keys, sheet>>
    /\ UNCHANGED <<splitVars, reshapeVars, convVars>>

\* What the history keeps of a leaf recurse wrote: the key and its
\* canonical form, the column and the text written, the batch-wide total of
\* the key, the sub-section id in force once the key was visited, and
\* whether the column was new to flat_dict
Leaf(kind, key, f_key, col, value, text, sub_id) ==
    [kind |-> kind, obj |-> oi, key |-> key, f_key |-> f_key, col |-> col,
     value |-> value, text |-> text,
     total |-> DictGetOr(key_total_count, f_key, 1),
     sub_id |-> sub_id,
     fresh |-> ~DictHas(flat_dict, col)]

\* recurse at a key that canonicalizes to section_title
VisitSectionTitle ==
    /\ fpc = "recurse" /\ work # <<>>
    /\ LET key == Head(work).k
           value == Head(work).v
           f_key == format_key(key)
           count == DictGetOr(key_tracker, f_key, 0) + 1
           total == DictGetOr(key_total_count, f_key, 1)
           col_name == CountedName(f_key, count, total)
       IN /\ f_key = section_title
          /\ current_section' = current_section + 1
          /\ sub_counter' = 0
          /\ current_sub_id' = NoneId
          /\ key_tracker' = Increment(key_tracker, f_key)
          /\ flat_dict' = DictPut(flat_dict, col_name, clean_value(value))
          /\ visited' = Append(visited,
                Leaf("section_title", key, f_key, col_name, value,
                     clean_value(value), NoneId))
    /\ work' = Tail(work)
    /\ UNCHANGED <<json_objects, key_total_count, oi, merged_flat,
                   global_duplicate_counter, rows, fpc>>
    /\ UNCHANGED <<merge, flats, ordered_keys, sheet>>
    /\ UNCHANGED <<splitVars, reshapeVars, convVars>>

\* recurse at a key that canonicalizes to sub_section_title
VisitSubSectionTitle ==
    /\ fpc = "recurse" /\ work # <<>>
    /\ LET key == Head(work).k
           value == Head(work).v
           f_key == format_key(key)
           sub_id == SubId(current_section, sub_counter + 1)
           col_name == f_key \o <<"_">> \o sub_id
       IN /\ f_key = sub_section_title
          /\ sub_counter' = sub_counter + 1
          /\ current_sub_id' = sub_id
          /\ flat_dict' = DictPut(flat_dict, col_name, clean_value(value))
          /\ visited' = Append(visited,
                Leaf("sub_section_title", key, f_key, col_name, value,
                     clean_value(value), sub_id))
    /\ work' = Tail(work)
    /\ UNCHANGED <<json_objects, key_total_count, key_tracker, oi,
                   current_section, merged_flat, global_duplicate_counter,
                   rows, fpc>>
    /\ UNCHANGED <<merge, flats, ordered_keys, sheet>>
    /\ UNCHANGED <<splitVars, reshapeVars, convVars>>

\* recurse at any other key whose value is a dict: recurse(value) visits
\* its members before the rest
VisitDict ==
    /\ fpc = "recurse" /\ work # <<>>
    /\ format_key(Head(work).k) \notin {section_title, sub_section_title}
    /\ IsDict(Head(work).v)
    /\ work' = recurse_items(Head(work).v) \o Tail(work)
    /\ UNCHANGED <<json_objects, key_total_count, key_tracker, oi, flat_dict,
                   current_section, sub_counter, current_sub_id, merged_flat,
                   global_duplicate_counter, rows, visited, fpc>>
    /\ UNCHANGED <<merge, flats, ordered_keys, sheet>>
    /\ UNCHANGED <<splitVars, reshapeVars, convVars>>

\* recurse at any other key whose value is a list
VisitList ==
    /\ fpc = "recurse" /\ work # <<>>
    /\ LET key == Head(work).k
           value == Head(work).v
           f_key == format_key(key)
           count == DictGetOr(key_tracker, f_key, 0) + 1
           total == DictGetOr(key_total_count, f_key, 1)
           col_name == LeafName(f_key, count, total, current_sub_id)
       IN /\ f_key \notin {section_title, sub_section_title}
          /\ IsList(value)
          /\ key_tracker' = Increment(key_tracker, f_key)
          /\ flat_dict' = DictPut(flat_dict, col_name, list_val(value))
          /\ visited' = Append(visited,
                Leaf("list", key, f_key, col_name, value, list_val(value),
                     current_sub_id))
    /\ work' = Tail(work)
    /\ UNCHANGED <<json_objects, key_total_count, oi, current_section,
                   sub_counter, current_sub_id, merged_flat,
                   global_duplicate_counter, rows, fpc>>
    /\ UNCHANGED <<merge, flats, ordered_keys, sheet>>
    /\ UNCHANGED <<splitVars, reshapeVars, convVars>>

\* recurse at any other key whose value is a scalar
VisitScalar ==
    /\ fpc = "recurse" /\ work # <<>>
    /\ LET key == Head(work).k
           value == Head(work).v
           f_key == format_key(key)
           count == DictGetOr(key_tracker, f_key, 0) + 1
           total == DictGetOr(key_total_count, f_key, 1)
           col_name == LeafName(f_key, count, total, current_sub_id)
       IN /\ f_key \notin {section_title, sub_section_title}
          /\ ~IsDict(value) /\ ~IsList(value)
          /\ key_tracker' = Increment(key_tracker, f_key)
          /\ flat_dict' = DictPut(flat_dict, col_name, clean_value(value))
          /\ visited' = Append(visited,
                Leaf("scalar", key, f_key, col_name, value,
                     clean_value(value), current_sub_id))
    /\ work' = Tail(work)
    /\ UNCHANGED <<json_objects, key_total_count, oi, current_section,
                   sub_counter, current_sub_id, merged_flat,
                   global_duplicate_counter, rows, fpc>>
    /\ UNCHANGED <<merge, flats, ordered_keys, sheet>>
    /\ UNCHANGED <<splitVars, reshapeVars, convVars>>

RECURSIVE MergeFlat(_, _, _)
\* The inner loop of process_json_objects over flat.items(): the merged
\* row and the duplicate counter after it
MergeFlat(flat, merged, counter) ==
    IF flat = <<>> THEN [merged |-> merged, counter |-> counter]
    ELSE LET key == Head(flat).k
             value == Head(flat).v
             c == Increment(counter, key)
             n == DictGet(c, key)
             m == IF n = 1 THEN DictPut(merged, key, value)
                  ELSE DictPut(merged, key \o <<"_">> \o NatStr(n), value)
         IN MergeFlat(Tail(flat), m, c)

\* flatten_json returns flat_dict; process_json_objects merges it into
\* merged_flat (or appends it to rows when MERGE_JSON_SNIPPETS is off)
ReturnFlat ==
    /\ fpc = "recurse" /\ work = <<>>
    /\ IF merge
       THEN LET r == MergeFlat(flat_dict, merged_flat, global_duplicate_counter)
            IN /\ merged_flat' = r.merged
               /\ global_duplicate_counter' = r.counter
               /\ UNCHANGED rows
       ELSE /\ rows' = Append(rows, flat_dict)
            /\ UNCHANGED <<merged_flat, global_duplicate_counter>>
    /\ oi' = oi + 1
    /\ fpc' = "next"
    /\ UNCHANGED <<json_objects, key_total_count, key_tracker, work,
                   flat_dict, current_section, sub_counter, current_sub_id,
                   visited>>
    /\ flats' = Append(flats, flat_dict)
    /\ UNCHANGED <<merge, ordered_keys, sheet>>
    /\ UNCHANGED <<splitVars, reshapeVars, convVars>>

\* process_json_objects returns
ReturnRows ==
    /\ fpc = "next" /\ oi > Len(json_objects)
    /\ rows' = IF merge THEN <<merged_flat>> ELSE rows
    /\ fpc' = "done"
    /\ UNCHANGED <<json_objects, key_total_count, key_tracker, oi, work,
                   flat_dict, current_section, sub_counter, current_sub_id,
                   merged_flat, global_duplicate_counter, visited>>
    /\ UNCHANGED <<merge, flats, ordered_keys, sheet>>
    /\ UNCHANGED <<splitVars, reshapeVars, convVars>>

RECURSIVE AppendUnseen(_, _)
\* The inner loop over row.keys(): each key not seen yet is appended
AppendUnseen(acc, ks) ==
    IF ks = <<>> THEN acc
    ELSE AppendUnseen(IF \E i \in 1..Len(acc) : acc[i] = Head(ks)
                      THEN acc ELSE Append(acc, Head(ks)),
                      Tail(ks))

RECURSIVE OrderedKeys(_, _)
\* The loop over rows that fills seen_keys and ordered_keys
OrderedKeys(rs, acc) ==
    IF rs = <<>> THEN acc
    ELSE OrderedKeys(Tail(rs), AppendUnseen(acc, DictKeys(Head(rs))))

\* row.get(key): None where the row lacks the key
RowGet_no_default(row, key) == DictGetOr(row, key, NoneId)

\* row.get(key, "")
RowGet(row, key) == DictGetOr(row, key, <<>>)

\* The worksheet: the header row of ordered_keys, then one row of cells
\* per row of rows, each cell row.get(key, "")
WriteWorksheet ==
    /\ fpc = "done"
    /\ LET ok == OrderedKeys(rows, <<>>)
       IN /\ ordered_keys' = ok
          /\ sheet' = <<ok>> \o
                [r \in 1..Len(rows) |->
                    [c \in 1..Len(ok) |-> RowGet(rows[r], ok[c])]]
    /\ fpc' = "sheet"
    /\ UNCHANGED <<json_objects, key_total_count, key_tracker, oi, work,
                   flat_dict, current_section, sub_counter, current_sub_id,
                   merged_flat, global_duplicate_counter, rows, visited,
                   merge, flats>>
    /\ UNCHANGED <<splitVars, reshapeVars, convVars>>

FlatNext ==
    \/ CountKeys
    \/ BeginFlatten
    \/ VisitSectionTitle
    \/ VisitSubSectionTitle
    \/ VisitDict
    \/ VisitList
    \/ VisitScalar
    \/ ReturnFlat
    \/ ReturnRows
    \/ WriteWorksheet

FlatSpec == FlatInit /\ [][FlatNext]_vars

-----------------------------------------------------------------------------
\* Claims about split_multiple_jsons (SplitSpec)

\* The objects of the well-formed object blocks of the input, in order
WellFormedObjects ==
    LET wf == SelectSeq(src, LAMBDA b : b \in ObjectBlocks)
    IN [i \in 1..Len(wf) |-> wf[i].objs[1]]

\* C1: for every input text that consists solely of well-formed JSON
\* objects, each starting on its own line (on one line or several, with or
\* without a trailing comma), split_multiple_jsons returns exactly those
\* objects, one per block, in their order of appearance.
C1_ReturnsEveryObject ==
    (spc = "done" /\ \A i \in 1..Len(src) : src[i] \in ObjectBlocks)
        => snippets = WellFormedObjects

\* An object block whose text has no brace inside a string
PlainObjectBlock(b) ==
    /\ b \in ObjectBlocks
    /\ Count(Dumps(b.objs[1]), "{") = Count(Dumps(b.objs[1]), "}")
    /\ \A i \in 1..Len(b.objs[1].kids) :
            Count(b.objs[1].kids[i].v.s, "{") + Count(b.objs[1].kids[i].v.s, "}") = 0

\* C2: for every input text of well-formed object blocks and one malformed
\* block (one that fails to parse, unbalanced braces included), the
\* malformed block before or after the others, split_multiple_jsons skips
\* the malformed block and returns exactly the well-formed objects.
C2_MalformedBlockSkipped ==
    (/\ spc = "done"
     /\ Cardinality({i \in 1..Len(src) : src[i] \in MalformedBlocks}) = 1
     /\ \A i \in 1..Len(src) :
            src[i] \in MalformedBlocks \/ PlainObjectBlock(src[i]))
        => snippets = WellFormedObjects

\* C3: when a candidate brace block parses as a JSON array rather than an
\* object, split_multiple_jsons emits each object element of the array, in
\* the array's order.
C3_ArrayElementsEmitted ==
    \A i \in 1..Len(finalized) :
        LET parsed == Loads(TrimBlock(finalized[i].block))
        IN (parsed.ok /\ IsList(parsed.v))
              => finalized[i].emitted = DictsOf(parsed.v)

-----------------------------------------------------------------------------
\* Claims about flatten_json and count_keys_across_all (FlatSpec)

Leaves == {visited[i] : i \in 1..Len(visited)}

HasAdjacentUnderscores(s) ==
    \E i \in 1..(Len(s) - 1) : s[i] = "_" /\ s[i + 1] = "_"

\* k without its leading and trailing whitespace
Trimmed(k) ==
    LET inner == {i \in 1..Len(k) : k[i] \notin Whitespace}
    IN IF inner = {} THEN <<>>
       ELSE SubSeq(k, CHOOSE i \in inner : \A j \in inner : i <= j,
                      CHOOSE i \in inner : \A j \in inner : i >= j)

\* A character of a canonical key: lower case, underscore for space and hyphen
CanonChar(c) == IF c \in {SP, "-"} THEN "_" ELSE LowerChar(c)

RECURSIVE CollapseUnderscores(_)
CollapseUnderscores(s) ==
    IF Len(s) < 2 THEN s
    ELSE IF s[1] = "_" /\ s[2] = "_" THEN CollapseUnderscores(Tail(s))
    ELSE <<s[1]>> \o CollapseUnderscores(Tail(s))

\* C4 as the spec states it: the canonical name of every key, as
\* flatten_json and count_keys_across_all use it, is the key trimmed,
\* lower-cased, spaces and hyphens replaced by underscores, and runs of
\* underscores collapsed to one, so it never holds two adjacent underscores.
C4_CanonicalKeyCollapsed ==
    \A l \in Leaves :
        /\ l.f_key = CollapseUnderscores(
                        [j \in 1..Len(Trimmed(l.key)) |-> CanonChar(Trimmed(l.key)[j])])
        /\ ~HasAdjacentUnderscores(l.f_key)
        /\ DictHas(key_total_count, l.f_key)

\* C4, amended: the canonical name of every key, as flatten_json and
\* count_keys_across_all use it, is the key with surrounding whitespace
\* trimmed, lower-cased, and each space and each hyphen replaced by one
\* underscore, character for character: runs of underscores are kept.
C4_CanonicalKey ==
    \A l \in Leaves :
        LET t == Trimmed(l.key) IN
        /\ Len(l.f_key) = Len(t)
        /\ \A j \in 1..Len(t) : l.f_key[j] = CanonChar(t[j])
        /\ StartsWith(l.col, l.f_key)
        /\ DictHas(key_total_count, l.f_key)

\* A key with whitespace around it and no underscore in it whose canonical
\* name holds a run of underscores
C4_Witness ==
    \E l \in Leaves :
        /\ Len(l.f_key) < Len(l.key)
        /\ Count(l.key, "_") = 0
        /\ HasAdjacentUnderscores(l.f_key)

\* C5: within one flatten_json call every leaf is written under a column
\* name no earlier leaf of the call used: flat_dict has as many columns as
\* leaves were visited, and no value is overwritten.
C5_EveryLeafOwnColumn ==
    /\ \A l \in Leaves : l.fresh
    /\ fpc = "recurse" =>
          Len(flat_dict) = Cardinality({i \in 1..Len(visited) : visited[i].obj = oi})

\* The leaf is named after the active sub-section id
HierarchyNamed(l) ==
    \/ l.kind = "sub_section_title"
    \/ /\ l.kind \in {"list", "scalar"}
       /\ StartsWith(l.f_key, <<"s", "u", "b", "_">>)
       /\ l.sub_id # NoneId

\* C6 as the spec states it: every key whose batch-wide total is exactly 1
\* is written under the canonical key itself, with no suffix.
C6_TotalOneNoSuffix ==
    \A l \in Leaves : l.total = 1 => l.col = l.f_key

\* C6, amended: every key whose batch-wide total is exactly 1 is written
\* under the canonical key itself, with no suffix, unless it is
\* sub_section_title, or begins with sub_ and is visited while a
\* sub-section id is active: such a key is written under the canonical key
\* followed by _<section>.<sub>, the active sub-section id.
C6_TotalOneNoCountSuffix ==
    \A l \in Leaves :
        l.total = 1 =>
            l.col = IF HierarchyNamed(l) THEN l.f_key \o <<"_">> \o l.sub_id
                    ELSE l.f_key

\* A batch with a key of total 1 written bare, beside a repeated key that
\* got a suffix
C6_Witness ==
    \E l, m \in Leaves :
        /\ l.total = 1 /\ ~HierarchyNamed(l) /\ l.col = l.f_key
        /\ m.total > 1 /\ m.col # m.f_key

\* C7: every occurrence of a key whose batch-wide total is greater than 1
\* gets a suffixed column name, and no two occurrences get the same one.
\* (Two occurrences in different objects are told apart by the merge, so
\* the columns compared are those of one object.)
C7_RepeatedKeyDistinctColumns ==
    \A i, j \in 1..Len(visited) :
        (i < j /\ visited[i].f_key = visited[j].f_key /\ visited[i].total > 1)
            => /\ visited[i].col # visited[i].f_key
               /\ visited[j].col # visited[j].f_key
               /\ visited[i].obj = visited[j].obj
                    => visited[i].col # visited[j].col

\* C8: a column name carries an occurrence number only when its key is
\* genuinely repeated, that is, when the key produces two or more columns
\* over the whole batch (which is what the pre-pass total equalling the
\* number of columns generated from the key would give).
C8_SuffixOnlyWhenRepeated ==
    fpc = "done" =>
        \A l \in Leaves :
            (~HierarchyNamed(l) /\ l.col # l.f_key)
                => Cardinality({i \in 1..Len(visited) :
                                    visited[i].f_key = l.f_key}) >= 2

\* C9: flatten_json renders every JSON null scalar as the empty string.
C9_NullRendersEmpty ==
    \A l \in Leaves : l.value.t = "null" => l.text = <<>>

RECURSIVE SplitFrom(_, _, _)
\* s.split(d), the piece being read is cur
SplitFrom(s, d, cur) ==
    IF s = <<>> THEN <<cur>>
    ELSE IF StartsWith(s, d)
         THEN <<cur>> \o SplitFrom(SubSeq(s, Len(d) + 1, Len(s)), d, <<>>)
    ELSE SplitFrom(Tail(s), d, Append(cur, Head(s)))

\* The cell split on the two-character escaped newline
SplitOnEscapedNewline(s) == SplitFrom(s, <<BS, "n">>, <<>>)

\* The elements of a list value, each as str() gives it
Rendered(value) == [i \in 1..Len(value.kids) |-> PyStr(value.kids[i].v)]

\* C10 as the spec states it: splitting the cell of an array-valued key on
\* the escaped newline recovers the array's elements, in order and in
\* number, the empty array and elements holding a newline included.
C10_ListRoundTrip ==
    \A l \in Leaves :
        l.kind = "list" => SplitOnEscapedNewline(l.text) = Rendered(l.value)

\* The text holds neither a newline nor the escaped newline
NoNewline(s) ==
    /\ Count(s, NL) = 0
    /\ ~\E i \in 1..(Len(s) - 1) : s[i] = BS /\ s[i + 1] = "n"

\* C10, amended: for a non-empty array whose elements, as str() renders
\* them, hold neither a newline nor the two-character escaped newline,
\* splitting the cell on the escaped newline recovers the rendered elements,
\* in order and in number; the cell of the empty array splits into one
\* empty piece.
C10_ListRoundTripNoNewline ==
    \A l \in Leaves :
        l.kind = "list" =>
            /\ (Len(l.value.kids) >= 1
                    /\ \A i \in 1..Len(l.value.kids) : NoNewline(Rendered(l.value)[i]))
                => SplitOnEscapedNewline(l.text) = Rendered(l.value)
            /\ Len(l.value.kids) = 0 => SplitOnEscapedNewline(l.text) = <<(<<>>)>>

\* A list of two or more elements, one ending in a backslash right before
\* the delimiter, that splits back into its elements
C10_Witness ==
    \E l \in Leaves :
        /\ l.kind = "list" /\ Len(l.value.kids) >= 2
        /\ \A i \in 1..Len(l.value.kids) : NoNewline(Rendered(l.value)[i])
        /\ EndsWith(Rendered(l.value)[1], <<BS>>)
        /\ SplitOnEscapedNewline(l.text) = Rendered(l.value)

-----------------------------------------------------------------------------
\* Claims about the column list and the merged row (FlatSpec)

\* Every key of every row, in scanning order: rows in input order, each
\* row's keys in insertion order
ScannedKeys == Concat([r \in 1..Len(rows) |-> DictKeys(rows[r])])

\* Where x first occurs in s
FirstIndex(s, x) ==
    CHOOSE i \in 1..Len(s) : s[i] = x /\ \A j \in 1..(i - 1) : s[j] # x

\* C11: the column list holds every key of every row exactly once and
\* nothing else, in the order the keys first appear when the rows are
\* scanned in input order and each row's keys in insertion order; the
\* header row is that list, and the cell of a row in a column is the row's
\* value for it, or the empty string where the row lacks the column.
C11_ColumnsFirstSeenAndPadded ==
    fpc = "sheet" =>
        /\ \A i \in 1..Len(ScannedKeys) :
              \E c \in 1..Len(ordered_keys) :
                 /\ ordered_keys[c] = ScannedKeys[i]
                 /\ \A d \in 1..Len(ordered_keys) :
                       ordered_keys[d] = ScannedKeys[i] => d = c
        /\ \A c \in 1..Len(ordered_keys) :
              \E i \in 1..Len(ScannedKeys) : ScannedKeys[i] = ordered_keys[c]
        /\ \A c, d \in 1..Len(ordered_keys) :
              c < d => FirstIndex(ScannedKeys, ordered_keys[c])
                           < FirstIndex(ScannedKeys, ordered_keys[d])
        /\ Len(sheet) = Len(rows) + 1
        /\ sheet[1] = ordered_keys
        /\ \A r \in 1..Len(rows) :
              /\ Len(sheet[r + 1]) = Len(ordered_keys)
              /\ \A c \in 1..Len(ordered_keys) :
                    sheet[r + 1][c] =
                        IF DictHas(rows[r], ordered_keys[c])
                        THEN DictGet(rows[r], ordered_keys[c])
                        ELSE <<>>

\* A sheet of two rows and two or more columns, where a row lacks a column
\* another row has and its cell there is empty
C11_Witness ==
    /\ fpc = "sheet"
    /\ Len(rows) >= 2 /\ Len(ordered_keys) >= 2
    /\ \E r \in 1..Len(rows) : \E c \in 1..Len(ordered_keys) :
          /\ ~DictHas(rows[r], ordered_keys[c])
          /\ sheet[r + 1][c] = <<>>

RECURSIVE SumLen(_)
\* The number of entries of a sequence of rows
SumLen(rs) == IF rs = <<>> THEN 0 ELSE Len(Head(rs)) + SumLen(Tail(rs))

\* C12: in merge mode the merged row keeps every entry of every flat row:
\* it has as many columns as the flat rows have entries in total, and the
\* first flat row to hold a key has its value under that key.
C12_MergeKeepsEveryEntry ==
    (fpc = "done" /\ merge = MERGE_JSON_SNIPPETS) =>
        /\ Len(rows) = 1
        /\ Len(rows[1]) = SumLen(flats)
        /\ \A i \in 1..Len(flats) : \A e \in 1..Len(flats[i]) :
              (\A j \in 1..(i - 1) : ~DictHas(flats[j], flats[i][e].k))
                  => /\ DictHas(rows[1], flats[i][e].k)
                     /\ DictGet(rows[1], flats[i][e].k) = flats[i][e].v

-----------------------------------------------------------------------------
\* format_csv.py: the wide sheet reshaped to the long layout

\* What a cell holds besides a string, a number or None: pd.NA, and a float
\* kept as its integer part and its decimal digits without trailing zeros
\* The empty string where pd.NA belongs
NA_empty_string == Str(<<>>)

NA == [t |-> "na", s |-> <<>>, n |-> 0, kids |-> <<>>]
Float(i, frac) == [t |-> "float", s |-> frac, n |-> i, kids |-> <<>>]

\* int(s) of a digit string
IntOf(s) == ParseDigits(s, 0).n

\* Where c last occurs in s, 0 if nowhere
LastAt(s, c) ==
    IF \E j \in 1..Len(s) : s[j] = c
    THEN CHOOSE j \in 1..Len(s) : s[j] = c /\ \A h \in (j + 1)..Len(s) : s[h] # c
    ELSE 0

RECURSIVE RStripZeros(_)
RStripZeros(s) ==
    IF s # <<>> /\ s[Len(s)] = "0" THEN RStripZeros(SubSeq(s, 1, Len(s) - 1))
    ELSE s

\* s.split(".")[0] and s.split(".")[1] of a text with one dot
Major(s) == SubSeq(s, 1, FirstAt(s, ".", 1) - 1)
Minor(s) == SubSeq(s, FirstAt(s, ".", 1) + 1, Len(s))

\* float(s) of a text \d+\.\d+
FloatOf(s) == Float(IntOf(Major(s)), RStripZeros(Minor(s)))

SectionPrefix == <<"s", "e", "c", "t", "i", "o", "n", "_">>
SubSectionPrefix == <<"s", "u", "b", "_", "s", "e", "c", "t", "i", "o", "n", "_">>

\* \d+\.\d+
IsDecimal(s) ==
    /\ Count(s, ".") = 1
    /\ AllDigits(Major(s)) /\ AllDigits(Minor(s))

\* SECTION_RE.match(k): ^(section)_(.+)_(\d+)$ ; the number is what follows
\* the last underscore, the field what lies between the prefix and it.
\* The groups (field, num), or matched FALSE
SECTION_RE(k) ==
    LET u == LastAt(k, "_")
    IN IF /\ StartsWith(k, SectionPrefix)
          /\ u >= Len(SectionPrefix) + 2
          /\ AllDigits(SubSeq(k, u + 1, Len(k)))
       THEN [matched |-> TRUE,
             field |-> SubSeq(k, Len(SectionPrefix) + 1, u - 1),
             num |-> SubSeq(k, u + 1, Len(k))]
       ELSE [matched |-> FALSE, field |-> <<>>, num |-> <<>>]

\* SUB_SECTION_RE.match(k): ^(sub_section)_(.+)_(\d+\.\d+)$
SUB_SECTION_RE(k) ==
    LET u == LastAt(k, "_")
    IN IF /\ StartsWith(k, SubSectionPrefix)
          /\ u >= Len(SubSectionPrefix) + 2
          /\ IsDecimal(SubSeq(k, u + 1, Len(k)))
       THEN [matched |-> TRUE,
             field |-> SubSeq(k, Len(SubSectionPrefix) + 1, u - 1),
             num |-> SubSeq(k, u + 1, Len(k))]
       ELSE [matched |-> FALSE, field |-> <<>>, num |-> <<>>]

RECURSIVE GatherSections(_, _)
\* sections.setdefault(num, {})[field] = v over row.items()
GatherSections(items, acc) ==
    IF items = <<>> THEN acc
    ELSE LET m == SECTION_RE(Head(items).k)
         IN GatherSections(Tail(items),
                IF m.matched
                THEN DictPut(acc, m.num,
                             DictPut(DictGetOr(acc, m.num, <<>>), m.field,
                                     Head(items).v))
                ELSE acc)

RECURSIVE GatherSubSections(_, _)
\* subsections.setdefault(sec_prefix, {}).setdefault(snum, {})[field] = v
GatherSubSections(items, acc) ==
    IF items = <<>> THEN acc
    ELSE LET m == SUB_SECTION_RE(Head(items).k)
             sec_prefix == Major(m.num)
             sub_map == DictGetOr(acc, sec_prefix, <<>>)
         IN GatherSubSections(Tail(items),
                IF m.matched
                THEN DictPut(acc, sec_prefix,
                             DictPut(sub_map, m.num,
                                     DictPut(DictGetOr(sub_map, m.num, <<>>),
                                             m.field, Head(items).v)))
                ELSE acc)

\* The keys as the dict holds them, unsorted
SortSections_insertion_order(keys) == keys

RECURSIVE SortSections(_)
\* sorted(keys, key=lambda x: int(x)): stable, ascending
SortSections(keys) ==
    IF keys = <<>> THEN <<>>
    ELSE LET x == keys[Len(keys)]
             rest == SortSections(SubSeq(keys, 1, Len(keys) - 1))
             n == Cardinality({i \in 1..Len(rest) : IntOf(rest[i]) <= IntOf(x)})
         IN SubSeq(rest, 1, n) \o <<x>> \o SubSeq(rest, n + 1, Len(rest))

\* (int(s.split(".")[0]), int(s.split(".")[1])) compared as tuples
SubKeyLeq(a, b) ==
    \/ IntOf(Major(a)) < IntOf(Major(b))
    \/ IntOf(Major(a)) = IntOf(Major(b)) /\ IntOf(Minor(a)) <= IntOf(Minor(b))

RECURSIVE SortSubSections(_)
\* sorted(sub_map.keys(), key=(major, minor)): stable, ascending
SortSubSections(keys) ==
    IF keys = <<>> THEN <<>>
    ELSE LET x == keys[Len(keys)]
             rest == SortSubSections(SubSeq(keys, 1, Len(keys) - 1))
             n == Cardinality({i \in 1..Len(rest) : SubKeyLeq(rest[i], x)})
         IN SubSeq(rest, 1, n) \o <<x>> \o SubSeq(rest, n + 1, Len(rest))

\* fields.get(name): None where the field is missing
FieldGet(fields, name) == DictGetOr(fields, name, Null)

\* One record of out_rows for a sub-section: make_section_base(sec_num,
\* sec_fields) updated with the sub-section's number and fields
SubSectionRecord(rc, sec_num, sec_fields, sub_num, sub_fields) ==
    [report_change |-> rc,
     section_number |-> Num(IntOf(sec_num)),
     section_title |-> FieldGet(sec_fields, <<"t", "i", "t", "l", "e">>),
     section_summary |-> FieldGet(sec_fields, <<"s", "u", "m", "m", "a", "r", "y">>),
     section_makeup |-> FieldGet(sec_fields, <<"m", "a", "k", "e", "u", "p">>),
     section_change |-> FieldGet(sec_fields, <<"c", "h", "a", "n", "g", "e">>),
     section_effect |-> FieldGet(sec_fields, <<"e", "f", "f", "e", "c", "t">>),
     section_related_article_title |-> FieldGet(sec_fields, <<"r", "e", "l", "a", "t", "e", "d", "_", "a", "r", "t", "i", "c", "l", "e", "_", "t", "i", "t", "l", "e">>),
     section_related_article_date |-> FieldGet(sec_fields, <<"r", "e", "l", "a", "t", "e", "d", "_", "a", "r", "t", "i", "c", "l", "e", "_", "d", "a", "t", "e">>),
     section_related_article_summary |-> FieldGet(sec_fields, <<"r", "e", "l", "a", "t", "e", "d", "_", "a", "r", "t", "i", "c", "l", "e", "_", "s", "u", "m", "m", "a", "r", "y">>),
     section_related_article_relevance |-> FieldGet(sec_fields, <<"r", "e", "l", "a", "t", "e", "d", "_", "a", "r", "t", "i", "c", "l", "e", "_", "r", "e", "l", "e", "v", "a", "n", "c", "e">>),
     section_related_article_source |-> FieldGet(sec_fields, <<"r", "e", "l", "a", "t", "e", "d", "_", "a", "r", "t", "i", "c", "l", "e", "_", "s", "o", "u", "r", "c", "e">>),
     sub_section_number |-> FloatOf(sub_num),
     sub_section_title |-> FieldGet(sub_fields, <<"t", "i", "t", "l", "e">>),
     sub_section_summary |-> FieldGet(sub_fields, <<"s", "u", "m", "m", "a", "r", "y">>),
     sub_section_makeup |-> FieldGet(sub_fields, <<"m", "a", "k", "e", "u", "p">>),
     sub_section_change |-> FieldGet(sub_fields, <<"c", "h", "a", "n", "g", "e">>),
     sub_section_effect |-> FieldGet(sub_fields, <<"e", "f", "f", "e", "c", "t">>),
     sub_section_related_article_title |-> FieldGet(sub_fields, <<"r", "e", "l", "a", "t", "e", "d", "_", "a", "r", "t", "i", "c", "l", "e", "_", "t", "i", "t", "l", "e">>),
     sub_section_related_article_date |-> FieldGet(sub_fields, <<"r", "e", "l", "a", "t", "e", "d", "_", "a", "r", "t", "i", "c", "l", "e", "_", "d", "a", "t", "e">>),
     sub_section_related_article_summary |-> FieldGet(sub_fields, <<"r", "e", "l", "a", "t", "e", "d", "_", "a", "r", "t", "i", "c", "l", "e", "_", "s", "u", "m", "m", "a", "r", "y">>),
     sub_section_related_article_relevance |-> FieldGet(sub_fields, <<"r", "e", "l", "a", "t", "e", "d", "_", "a", "r", "t", "i", "c", "l", "e", "_", "r", "e", "l", "e", "v", "a", "n", "c", "e">>),
     sub_section_related_article_source |-> FieldGet(sub_fields, <<"r", "e", "l", "a", "t", "e", "d", "_", "a", "r", "t", "i", "c", "l", "e", "_", "s", "o", "u", "r", "c", "e">>)]

\* The record of a section without sub-sections: make_section_base(...)
\* updated with pd.NA in every sub-section column
SectionOnlyRecord(rc, sec_num, sec_fields) ==
    [report_change |-> rc,
     section_number |-> Num(IntOf(sec_num)),
     section_title |-> FieldGet(sec_fields, <<"t", "i", "t", "l", "e">>),
     section_summary |-> FieldGet(sec_fields, <<"s", "u", "m", "m", "a", "r", "y">>),
     section_makeup |-> FieldGet(sec_fields, <<"m", "a", "k", "e", "u", "p">>),
     section_change |-> FieldGet(sec_fields, <<"c", "h", "a", "n", "g", "e">>),
     section_effect |-> FieldGet(sec_fields, <<"e", "f", "f", "e", "c", "t">>),
     section_related_article_title |-> FieldGet(sec_fields, <<"r", "e", "l", "a", "t", "e", "d", "_", "a", "r", "t", "i", "c", "l", "e", "_", "t", "i", "t", "l", "e">>),
     section_related_article_date |-> FieldGet(sec_fields, <<"r", "e", "l", "a", "t", "e", "d", "_", "a", "r", "t", "i", "c", "l", "e", "_", "d", "a", "t", "e">>),
     section_related_article_summary |-> FieldGet(sec_fields, <<"r", "e", "l", "a", "t", "e", "d", "_", "a", "r", "t", "i", "c", "l", "e", "_", "s", "u", "m", "m", "a", "r", "y">>),
     section_related_article_relevance |-> FieldGet(sec_fields, <<"r", "e", "l", "a", "t", "e", "d", "_", "a", "r", "t", "i", "c", "l", "e", "_", "r", "e", "l", "e", "v", "a", "n", "c", "e">>),
     section_related_article_source |-> FieldGet(sec_fields, <<"r", "e", "l", "a", "t", "e", "d", "_", "a", "r", "t", "i", "c", "l", "e", "_", "s", "o", "u", "r", "c", "e">>),
     sub_section_number |-> NA,
     sub_section_title |-> NA,
     sub_section_summary |-> NA,
     sub_section_makeup |-> NA,
     sub_section_change |-> NA,
     sub_section_effect |-> NA,
     sub_section_related_article_title |-> NA,
     sub_section_related_article_date |-> NA,
     sub_section_related_article_summary |-> NA,
     sub_section_related_article_relevance |-> NA,
     sub_section_related_article_source |-> NA]

ReportChange == <<"r", "e", "p", "o", "r", "t", "_", "c", "h", "a", "n", "g", "e">>

-----------------------------------------------------------------------------
\* The sheets the reshaper is given

\* The column names a wide row is drawn from
ColumnPool ==
    << <<"s", "e", "c", "t", "i", "o", "n", "_", "t", "i", "t", "l", "e", "_", "1">>,
       <<"s", "e", "c", "t", "i", "o", "n", "_", "t", "i", "t", "l", "e", "_", "2">>,
       <<"s", "e", "c", "t", "i", "o", "n", "_", "t", "i", "t", "l", "e", "_", "1", "0">>,
       <<"s", "e", "c", "t", "i", "o", "n", "_", "s", "u", "m", "m", "a", "r", "y", "_", "1">>,
       <<"s", "u", "b", "_", "s", "e", "c", "t", "i", "o", "n", "_", "t", "i", "t", "l", "e", "_", "1", ".", "1">>,
       <<"s", "u", "b", "_", "s", "e", "c", "t", "i", "o", "n", "_", "t", "i", "t", "l", "e", "_", "1", ".", "2">>,
       <<"s", "u", "b", "_", "s", "e", "c", "t", "i", "o", "n", "_", "t", "i", "t", "l", "e", "_", "1", ".", "1", "0">>,
       <<"s", "u", "b", "_", "s", "e", "c", "t", "i", "o", "n", "_", "s", "u", "m", "m", "a", "r", "y", "_", "1", ".", "1">>,
       <<"s", "u", "b", "_", "s", "e", "c", "t", "i", "o", "n", "_", "t", "i", "t", "l", "e", "_", "3", ".", "1">>,
       <<"s", "u", "b", "_", "s", "e", "c", "t", "i", "o", "n", "_", "t", "i", "t", "l", "e", "_", "1", "_", "3">>,
       <<"r", "e", "p", "o", "r", "t", "_", "c", "h", "a", "n", "g", "e">>,
       <<"n", "a", "m", "e">> >>

\* The cell under the i-th column of the pool
CellOf(i) == Str(<<"v">> \o NatStr(i))

\* The wide rows: up to MaxCols distinct columns of the pool, in any order
WideRows ==
    { [i \in 1..Len(c) |-> KV(ColumnPool[c[i]], CellOf(c[i]))] :
        c \in { d \in SeqsUpTo(1..Len(ColumnPool), MaxCols) :
                  \A i, j \in 1..Len(d) : i # j => d[i] # d[j] } }

\* An entry of the listing: a folder, a file that is no sheet, a sheet that
\* cannot be read, or a sheet with its rows (none, or the one wide row)
Entry(kind, readable, df) == [kind |-> kind, readable |-> readable, df |-> df]

SheetEntries ==
    {Entry("sheet", TRUE, <<row>>) : row \in WideRows}
        \cup {Entry("sheet", TRUE, <<>>)}

OtherEntries ==
    {Entry("folder", TRUE, <<>>), Entry("other", TRUE, <<>>),
     Entry("sheet", FALSE, <<>>)}

\* The sheet of two sub-sections under one section
TwoSubSections ==
    Entry("sheet", TRUE,
          << <<KV(ColumnPool[1], CellOf(1)), KV(ColumnPool[5], CellOf(5)),
               KV(ColumnPool[6], CellOf(6))>> >>)

\* A sheet of three sections, the first with two sub-sections, its columns
\* in neither numeric nor lexical order
MixedSheet ==
    Entry("sheet", TRUE,
          << <<KV(ColumnPool[7], CellOf(7)), KV(ColumnPool[3], CellOf(3)),
               KV(ColumnPool[6], CellOf(6)), KV(ColumnPool[1], CellOf(1)),
               KV(ColumnPool[2], CellOf(2))>> >>)

EntryLists ==
    {<<e>> : e \in SheetEntries \cup OtherEntries \cup {MixedSheet}}
        \cup {<<o, TwoSubSections>> : o \in OtherEntries}

-----------------------------------------------------------------------------
\* process_all_files: every sheet of the listing is read, transformed by
\* transform_flat_sheet_to_long and written

ReshapeInit ==
    /\ entries \in EntryLists
    /\ ei = 1
    /\ df_in = <<>>
    /\ sections = <<>>
    /\ subsections = <<>>
    /\ report_change = Null
    /\ todo = <<>>
    /\ out_rows = <<>>
    /\ written = <<>>
    /\ writes = <<>>
    /\ rpc = "next"
    /\ SplitIdle
    /\ FlatIdle
    /\ ConvIdle

\* An entry without a name, a folder, or a file of another extension
SkipEntry ==
    /\ rpc = "next" /\ ei <= Len(entries)
    /\ entries[ei].kind # "sheet"
    /\ ei' = ei + 1
    /\ UNCHANGED <<entries, df_in, sections, subsections, report_change,
                   todo, out_rows, written, writes, rpc>>
    /\ UNCHANGED <<splitVars, flatVars, convVars>>

\* process_single_file: read_sheet_from_supabase returns the sheet
ReadSheet ==
    /\ rpc = "next" /\ ei <= Len(entries)
    /\ entries[ei].kind = "sheet" /\ entries[ei].readable
    /\ df_in' = entries[ei].df
    /\ rpc' = "transform"
    /\ UNCHANGED <<entries, ei, sections, subsections, report_change, todo,
                   out_rows, written, writes>>
    /\ UNCHANGED <<splitVars, flatVars, convVars>>

\* read_sheet_from_supabase raises: process_all_files logs it and goes on
ReadFails ==
    /\ rpc = "next" /\ ei <= Len(entries)
    /\ entries[ei].kind = "sheet" /\ ~entries[ei].readable
    /\ ei' = ei + 1
    /\ UNCHANGED <<entries, df_in, sections, subsections, report_change,
                   todo, out_rows, written, writes, rpc>>
    /\ UNCHANGED <<splitVars, flatVars, convVars>>

\* transform_flat_sheet_to_long on a sheet without rows: the empty frame
TransformEmpty ==
    /\ rpc = "transform" /\ df_in = <<>>
    /\ out_rows' = <<>>
    /\ sections' = <<>>
    /\ subsections' = <<>>
    /\ report_change' = Null
    /\ todo' = <<>>
    /\ rpc' = "write"
    /\ UNCHANGED <<entries, ei, df_in, written, writes>>
    /\ UNCHANGED <<splitVars, flatVars, convVars>>

\* transform_flat_sheet_to_long up to the emitting loop: the first row's
\* columns gathered into sections and subsections
Gather ==
    /\ rpc = "transform" /\ df_in # <<>>
    /\ LET row == df_in[1]
           secs == GatherSections(row, <<>>)
       IN /\ sections' = secs
          /\ subsections' = GatherSubSections(row, <<>>)
          /\ report_change' = FieldGet(row, ReportChange)
          /\ todo' = SortSections(DictKeys(secs))
    /\ out_rows' = <<>>
    /\ rpc' = "emit"
    /\ UNCHANGED <<entries, ei, df_in, written, writes>>
    /\ UNCHANGED <<splitVars, flatVars, convVars>>

\* The next section has sub-sections: one record for each, in sorted order
EmitSubSections ==
    /\ rpc = "emit" /\ todo # <<>>
    /\ LET sec_num == Head(todo)
           sec_fields == DictGet(sections, sec_num)
           sub_map == DictGetOr(subsections, sec_num, <<>>)
           subs == SortSubSections(DictKeys(sub_map))
       IN /\ sub_map # <<>>
          /\ out_rows' = out_rows \o
                [i \in 1..Len(subs) |->
                    SubSectionRecord(report_change, sec_num, sec_fields,
                                     subs[i], DictGet(sub_map, subs[i]))]
    /\ todo' = Tail(todo)
    /\ UNCHANGED <<entries, ei, df_in, sections, subsections, report_change,
                   written, writes, rpc>>
    /\ UNCHANGED <<splitVars, flatVars, convVars>>

\* The next section has no sub-sections: one record, pd.NA in their place
EmitSectionOnly ==
    /\ rpc = "emit" /\ todo # <<>>
    /\ LET sec_num == Head(todo)
           sec_fields == DictGet(sections, sec_num)
           sub_map == DictGetOr(subsections, sec_num, <<>>)
       IN /\ sub_map = <<>>
          /\ out_rows' = Append(out_rows,
                SectionOnlyRecord(report_change, sec_num, sec_fields))
    /\ todo' = Tail(todo)
    /\ UNCHANGED <<entries, ei, df_in, sections, subsections, report_change,
                   written, writes, rpc>>
    /\ UNCHANGED <<splitVars, flatVars, convVars>>

\* transform_flat_sheet_to_long returns the frame of out_rows
ReturnFrame ==
    /\ rpc = "emit" /\ todo = <<>>
    /\ rpc' = "write"
    /\ UNCHANGED <<entries, ei, df_in, sections, subsections, report_change,
                   todo, out_rows, written, writes>>
    /\ UNCHANGED <<splitVars, flatVars, convVars>>

\* write_sheet_to_supabase(df_out, out_rel) succeeds: the file is written
\* and its path joins written
WriteSheet ==
    /\ rpc = "write"
    /\ writes' = Append(writes, [file |-> ei, rows |-> out_rows])
    /\ written' = Append(written, ei)
    /\ ei' = ei + 1
    /\ rpc' = "next"
    /\ UNCHANGED <<entries, df_in, sections, subsections, report_change,
                   todo, out_rows>>
    /\ UNCHANGED <<splitVars, flatVars, convVars>>

\* write_supabase_file raises: process_all_files logs it and goes on
WriteFails ==
    /\ rpc = "write"
    /\ ei' = ei + 1
    /\ rpc' = "next"
    /\ UNCHANGED <<entries, df_in, sections, subsections, report_change,
                   todo, out_rows, written, writes>>
    /\ UNCHANGED <<splitVars, flatVars, convVars>>

\* process_all_files returns {"written": written, "count": len(written)}
ReturnWritten ==
    /\ rpc = "next" /\ ei > Len(entries)
    /\ rpc' = "done"
    /\ UNCHANGED <<entries, ei, df_in, sections, subsections, report_change,
                   todo, out_rows, written, writes>>
    /\ UNCHANGED <<splitVars, flatVars, convVars>>

ReshapeNext ==
    \/ SkipEntry
    \/ ReadSheet
    \/ ReadFails
    \/ TransformEmpty
    \/ Gather
    \/ EmitSubSections
    \/ EmitSectionOnly
    \/ ReturnFrame
    \/ WriteSheet
    \/ WriteFails
    \/ ReturnWritten

ReshapeSpec == ReshapeInit /\ [][ReshapeNext]_vars


-----------------------------------------------------------------------------
\* Claims about transform_flat_sheet_to_long and process_single_file
\* (ReshapeSpec)

\* The wide row of the sheet that was transformed, and its columns
Transformed == rpc = "write" /\ df_in # <<>>
WideRow == df_in[1]
WideCols == {WideRow[i] : i \in 1..Len(WideRow)}

\* The section numbers that have a section column, and the sub-section
\* numbers N.M of the sub-section columns under section number N
SectionNumbers ==
    {SECTION_RE(e.k).num : e \in {c \in WideCols : SECTION_RE(c.k).matched}}
SubNumbersOf(N) ==
    {SUB_SECTION_RE(e.k).num :
        e \in {c \in WideCols : /\ SUB_SECTION_RE(c.k).matched
                                /\ Major(SUB_SECTION_RE(c.k).num) = N}}

\* The records emitted under section number N
RowsOf(N) ==
    {i \in 1..Len(out_rows) : out_rows[i].section_number = Num(IntOf(N))}

TitleField == <<"t", "i", "t", "l", "e">>
SummaryField == <<"s", "u", "m", "m", "a", "r", "y">>

\* Record r carries the fields (title, summary) of section number N
CarriesSection(r, N) ==
    /\ r.section_number = Num(IntOf(N))
    /\ \A e \in WideCols :
          LET m == SECTION_RE(e.k)
          IN (m.matched /\ m.num = N) =>
                /\ m.field = TitleField => r.section_title = e.v
                /\ m.field = SummaryField => r.section_summary = e.v

\* Record r carries the number and the fields of sub-section number M
CarriesSubSection(r, M) ==
    /\ r.sub_section_number = FloatOf(M)
    /\ \A e \in WideCols :
          LET m == SUB_SECTION_RE(e.k)
          IN (m.matched /\ m.num = M) =>
                /\ m.field = TitleField => r.sub_section_title = e.v
                /\ m.field = SummaryField => r.sub_section_summary = e.v

\* Every sub-section column of record r holds the null marker
AllSubSectionNull(r) ==
    /\ r.sub_section_number = NA
    /\ r.sub_section_title = NA
    /\ r.sub_section_summary = NA
    /\ r.sub_section_makeup = NA
    /\ r.sub_section_change = NA
    /\ r.sub_section_effect = NA
    /\ r.sub_section_related_article_title = NA
    /\ r.sub_section_related_article_date = NA
    /\ r.sub_section_related_article_summary = NA
    /\ r.sub_section_related_article_relevance = NA
    /\ r.sub_section_related_article_source = NA

RECURSIVE RowsExpected(_)
\* The sum over the section numbers in S of max(1, number of sub-sections)
RowsExpected(S) ==
    IF S = {} THEN 0
    ELSE LET N == CHOOSE x \in S : TRUE
             k == Cardinality(SubNumbersOf(N))
         IN (IF k >= 1 THEN k ELSE 1) + RowsExpected(S \ {N})

SourceSub(r) ==
    CHOOSE M \in UNION {SubNumbersOf(N) : N \in SectionNumbers} :
        \E e \in WideCols :
            /\ SUB_SECTION_RE(e.k).matched /\ SUB_SECTION_RE(e.k).num = M
            /\ e.v \in {r.sub_section_title, r.sub_section_summary}

\* C14: the records come by ascending integer section number and, within a
\* section, by ascending integer minor sub-section number, whatever the
\* order of the columns of the wide row.
C14_NumericOrder ==
    Transformed =>
        \A i, j \in 1..Len(out_rows) :
            i < j =>
                LET a == out_rows[i]
                    b == out_rows[j]
                IN \/ a.section_number.n < b.section_number.n
                   \/ /\ a.section_number.n = b.section_number.n
                      /\ a.sub_section_number # NA
                      /\ b.sub_section_number # NA
                      /\ IntOf(Minor(SourceSub(a))) < IntOf(Minor(SourceSub(b)))

\* Where the column of section number N stands in the wide row
ColumnOfSection(N) ==
    CHOOSE i \in 1..Len(WideRow) :
        SECTION_RE(WideRow[i].k).matched /\ SECTION_RE(WideRow[i].k).num = N

\* Where the column of sub-section number M stands in the wide row
ColumnOfSubSection(M) ==
    CHOOSE i \in 1..Len(WideRow) :
        /\ SUB_SECTION_RE(WideRow[i].k).matched
        /\ SUB_SECTION_RE(WideRow[i].k).num = M

\* Section 10 stands before section 2 in the wide row and sub-section 1.10
\* before 1.2, and the records come 1.2, 1.10, then 2, then 10
C14_Witness ==
    /\ Transformed
    /\ {<<"2">>, <<"1", "0">>} \subseteq SectionNumbers
    /\ ColumnOfSection(<<"1", "0">>) < ColumnOfSection(<<"2">>)
    /\ {<<"1", ".", "2">>, <<"1", ".", "1", "0">>} \subseteq SubNumbersOf(<<"1">>)
    /\ ColumnOfSubSection(<<"1", ".", "1", "0">>)
          < ColumnOfSubSection(<<"1", ".", "2">>)
    /\ Len(out_rows) = 4
    /\ SourceSub(out_rows[1]) = <<"1", ".", "2">>
    /\ SourceSub(out_rows[2]) = <<"1", ".", "1", "0">>
    /\ out_rows[3].section_number = Num(2)
    /\ out_rows[4].section_number = Num(10)

\* A column sub_section_<field>_<N>_<M>, with an underscore between N and M:
\* the groups (field, N, M), or matched FALSE
UnderscoreSubSection(k) ==
    LET u == LastAt(k, "_")
        head == SubSeq(k, 1, u - 1)
        v == LastAt(head, "_")
    IN IF /\ StartsWith(k, SubSectionPrefix)
          /\ u > 0 /\ AllDigits(SubSeq(k, u + 1, Len(k)))
          /\ v >= Len(SubSectionPrefix) + 2
          /\ AllDigits(SubSeq(head, v + 1, Len(head)))
       THEN [matched |-> TRUE,
             field |-> SubSeq(k, Len(SubSectionPrefix) + 1, v - 1),
             major |-> SubSeq(head, v + 1, Len(head)),
             minor |-> SubSeq(k, u + 1, Len(k))]
       ELSE [matched |-> FALSE, field |-> <<>>, major |-> <<>>,
             minor |-> <<>>]

\* C15: a column sub_section_title_<N>_<M> of a wide row that has section N
\* is grouped under sub-section N.M of section N, as
\* sub_section_title_<N>.<M> is: a record of section N has sub-section
\* number N.M and the column's cell as its sub-section title.
C15_UnderscoreSeparatorGrouped ==
    Transformed =>
        \A e \in WideCols :
            LET m == UnderscoreSubSection(e.k)
            IN (m.matched /\ m.field = TitleField
                    /\ m.major \in SectionNumbers) =>
                  \E i \in RowsOf(m.major) :
                     /\ out_rows[i].sub_section_number
                            = FloatOf(m.major \o <<".">> \o m.minor)
                     /\ out_rows[i].sub_section_title = e.v

\* The cell of record r in the output column named as the wide column e is,
\* equal to e's cell: report_change is the one column of OUT_COLUMNS that
\* is neither a section nor a sub-section column
CarriedVerbatim(r, e) == e.k = ReportChange /\ r.report_change = e.v

\* C16: every column of the wide row that matches neither pattern appears,
\* with its cell unchanged, on every record emitted.
C16_GlobalFieldsOnEveryRow ==
    Transformed =>
        \A e \in WideCols :
            (~SECTION_RE(e.k).matched /\ ~SUB_SECTION_RE(e.k).matched) =>
                \A i \in 1..Len(out_rows) : CarriedVerbatim(out_rows[i], e)

\* C17: a sub-section column N.M whose N has no section column still yields
\* a record, under a section N that carries no section field.
C17_OrphanSubSectionEmitted ==
    Transformed =>
        \A e \in WideCols :
            LET m == SUB_SECTION_RE(e.k)
            IN (m.matched /\ Major(m.num) \notin SectionNumbers) =>
                  \E i \in 1..Len(out_rows) :
                     /\ out_rows[i].section_number = Num(IntOf(Major(m.num)))
                     /\ out_rows[i].section_title = Null
                     /\ CarriesSubSection(out_rows[i], m.num)

\* C18: a sheet whose wide row has no section and no sub-section column (or
\* that has no row at all), so that no record is emitted, is never written.
C18_NoWriteOfEmptyReshape ==
    \A w \in 1..Len(writes) :
        LET df == entries[writes[w].file].df
        IN /\ df # <<>>
           /\ \E i \in 1..Len(df[1]) :
                 \/ SECTION_RE(df[1][i].k).matched
                 \/ SUB_SECTION_RE(df[1][i].k).matched

-----------------------------------------------------------------------------
\* Claims about the loose runs of split_multiple_jsons (SplitSpec)

\* What a line outside a brace block is to the scan
LineClass(raw_line) ==
    LET line == Strip(raw_line)
    IN IF Count(line, "{") > 0 THEN "brace"
       ELSE IF line = <<>> THEN "blank"
       ELSE IF LooseMatch(line).ok THEN "loose"
       ELSE "other"

\* Every line of the text has as many closing braces as opening ones, so
\* that no brace block runs over a line and every line is outside a block
NoOpenBlock ==
    \A i \in 1..Len(lines) : Count(lines[i], "{") = Count(lines[i], "}")

RECURSIVE RunSizes(_, _, _)
\* The numbers of loose lines in the successive stretches of lines ls that
\* lines of the classes in bounds, and the end of the text, delimit;
\* stretches without a loose line left out
RunSizes(ls, bounds, n) ==
    IF ls = <<>> THEN (IF n > 0 THEN <<n>> ELSE <<>>)
    ELSE LET c == LineClass(Head(ls))
         IN IF c \in bounds
            THEN (IF n > 0 THEN <<n>> ELSE <<>>)
                     \o RunSizes(Tail(ls), bounds, 0)
            ELSE RunSizes(Tail(ls), bounds, IF c = "loose" THEN n + 1 ELSE n)

\* C20 as the spec states it: only a blank line, the start of a brace block
\* or the end of the input closes a loose run; the loose lines between two
\* such boundaries are wrapped together and emitted as exactly one object.
C20_LooseRunClosedOnlyAtBoundary ==
    (spc = "done" /\ NoOpenBlock) =>
        /\ [i \in 1..Len(loose_runs) |-> Len(loose_runs[i].items)]
              = RunSizes(lines, {"blank", "brace"}, 0)
        /\ \A i \in 1..Len(loose_runs) :
              /\ loose_runs[i].boundary \in {"blank", "brace", "eof"}
              /\ Len(loose_runs[i].objs) = 1

\* The text finalize_loose_block parses for the items fi
Wrapped(fi) == <<"{", NL>> \o Join(<<",", NL>>, fi) \o <<NL, "}">>

\* C20, amended: a blank line, the start of a brace block, a line that is
\* no "key": value line, or the end of the input closes a loose run; the
\* loose lines between two such boundaries are wrapped together, and
\* emitted as exactly one object if the wrapped text parses, as none if it
\* does not; a run open at the end of the input is treated alike.
C20_LooseRunClosedAtBoundaryOrOtherLine ==
    (spc = "done" /\ NoOpenBlock) =>
        /\ [i \in 1..Len(loose_runs) |-> Len(loose_runs[i].items)]
              = RunSizes(lines, {"blank", "brace", "other"}, 0)
        /\ \A i \in 1..Len(loose_runs) :
              /\ Len(loose_runs[i].objs) =
                    (IF Loads(Wrapped(loose_runs[i].items)).ok THEN 1 ELSE 0)
              /\ \A j \in 1..Len(loose_runs[i].objs) :
                    \E k \in 1..Len(snippets) :
                        snippets[k] = loose_runs[i].objs[j]

\* A text of loose lines where a run of two lines was closed by a blank
\* line or by a plain line and emitted as one object of two keys, and a run
\* was closed by the end of the input and emitted as one object
C20_Witness ==
    /\ spc = "done" /\ NoOpenBlock
    /\ \E i \in 1..Len(loose_runs) :
          /\ loose_runs[i].boundary \in {"blank", "other"}
          /\ Len(loose_runs[i].items) = 2
          /\ Len(loose_runs[i].objs) = 1
          /\ Len(loose_runs[i].objs[1].kids) = 2
    /\ \E i \in 1..Len(loose_runs) :
          /\ loose_runs[i].boundary = "eof"
          /\ Len(loose_runs[i].objs) = 1

-----------------------------------------------------------------------------
\* convert_json_to_csv: the latest input file is listed and read, its text
\* split into objects, the objects flattened into the worksheet, and the
\* workbook written; each stage in a try of its own

\* The blocks the input file of a run is laid out from
ConvBlocks ==
    { Block("one", <<Obj(<<KV(<<"a">>, Num(1))>>)>>),
      Block("multi", <<Obj(<<KV(<<"b">>, Obj(<<KV(<<"c">>, Str(<<"x">>))>>)),
                             KV(<<"d">>, Num(2))>>)>>),
      Block("one_comma", <<Obj(<<>>)>>),
      Block("multi",
            <<Obj(<<KV(<<"S", "e", "c", "t", "i", "o", "n", SP,
                         "T", "i", "t", "l", "e">>, Str(<<"S">>)),
                    KV(<<"S", "u", "b", "-", "S", "e", "c", "t", "i", "o", "n",
                         SP, "T", "i", "t", "l", "e">>, Str(<<"T">>)),
                    KV(K_sub_a, List(<<Str(<<"p">>), Str(<<"q">>)>>))>>)>>),
      Block("unclosed", <<Obj(<<KV(<<"m">>, Num(0))>>)>>),
      Block("no_colon", <<Obj(<<KV(<<"m">>, Num(0))>>)>>),
      Block("loose", <<Obj(<<KV(<<"k">>, Num(1)), KV(<<"l">>, Str(<<"y">>))>>)>>),
      Block("blank", <<>>),
      Block("junk", <<>>) }

\* One call or stage in the history
Call(op, ok) == [op |-> op, ok |-> ok]

ConvInit ==
    /\ src \in {<<a>> : a \in ConvBlocks} \cup (ConvBlocks \X ConvBlocks)
    /\ lines = <<>>
    /\ ln = 0
    /\ current_block = <<>>
    /\ brace_balance = 0
    /\ flat_items = <<>>
    /\ snippets = <<>>
    /\ finalized = <<>>
    /\ loose_runs = <<>>
    /\ spc = "idle"
    /\ FlatIdle
    /\ ReshapeIdle
    /\ cpc = "list"
    /\ outcome = "none"
    /\ calls = <<>>

\* get_latest_input_file() returns a filename
GetLatestOk ==
    /\ cpc = "list"
    /\ calls' = Append(calls, Call("list", TRUE))
    /\ cpc' = "read"
    /\ UNCHANGED outcome
    /\ UNCHANGED <<splitVars, flatVars, reshapeVars>>

\* get_latest_input_file() raises: {"error": ...} is returned
GetLatestFails ==
    /\ cpc = "list"
    /\ calls' = Append(calls, Call("list", FALSE))
    /\ outcome' = "error"
    /\ cpc' = "returned"
    /\ UNCHANGED <<splitVars, flatVars, reshapeVars>>

\* read_supabase_file(...) returns the text: split_multiple_jsons starts
ReadFileOk ==
    /\ cpc = "read"
    /\ calls' = Append(calls, Call("read", TRUE))
    /\ lines' = TextLines(src)
    /\ ln' = 1
    /\ spc' = "scan"
    /\ cpc' = "split"
    /\ UNCHANGED outcome
    /\ UNCHANGED <<src, current_block, brace_balance, flat_items, snippets,
                   finalized, loose_runs>>
    /\ UNCHANGED <<flatVars, reshapeVars>>

\* read_supabase_file(...) raises: {"error": ...} is returned
ReadFileFails ==
    /\ cpc = "read"
    /\ calls' = Append(calls, Call("read", FALSE))
    /\ outcome' = "error"
    /\ cpc' = "returned"
    /\ UNCHANGED <<splitVars, flatVars, reshapeVars>>

\* split_multiple_jsons returned no object: the ValueError is raised and
\* caught, {"error": "Invalid JSON structure: ..."} is returned
NoObjects ==
    /\ cpc = "split" /\ spc = "done"
    /\ snippets = <<>>
    /\ calls' = Append(calls, Call("extract", FALSE))
    /\ outcome' = "error"
    /\ cpc' = "returned"
    /\ UNCHANGED <<splitVars, flatVars, reshapeVars>>

\* A mutation of ObjectsFound: without the check of line 310
ObjectsFound_unchecked ==
    /\ cpc = "split" /\ spc = "done"
    /\ calls' = Append(calls, Call("extract", TRUE))
    /\ json_objects' = snippets
    /\ merge' = MERGE_JSON_SNIPPETS
    /\ fpc' = "count"
    /\ cpc' = "flatten"
    /\ UNCHANGED outcome
    /\ UNCHANGED <<key_total_count, key_tracker, oi, work, flat_dict,
                   current_section, sub_counter, current_sub_id, merged_flat,
                   global_duplicate_counter, rows, flats, ordered_keys,
                   sheet, visited>>
    /\ UNCHANGED <<splitVars, reshapeVars>>

\* split_multiple_jsons returned objects: the pre-pass and the flattening
\* start on them
ObjectsFound ==
    /\ cpc = "split" /\ spc = "done"
    /\ snippets # <<>>
    /\ calls' = Append(calls, Call("extract", TRUE))
    /\ json_objects' = snippets
    /\ merge' = MERGE_JSON_SNIPPETS
    /\ fpc' = "count"
    /\ cpc' = "flatten"
    /\ UNCHANGED outcome
    /\ UNCHANGED <<key_total_count, key_tracker, oi, work, flat_dict,
                   current_section, sub_counter, current_sub_id, merged_flat,
                   global_duplicate_counter, rows, flats, ordered_keys,
                   sheet, visited>>
    /\ UNCHANGED <<splitVars, reshapeVars>>

\* The worksheet is filled, workbook.close() and the read of the stream
\* succeed: full_xlsx is ready
WorkbookClosed ==
    /\ cpc = "flatten" /\ fpc = "sheet"
    /\ calls' = Append(calls, Call("flatten", TRUE))
    /\ cpc' = "write"
    /\ UNCHANGED outcome
    /\ UNCHANGED <<splitVars, flatVars, reshapeVars>>

\* The workbook raises: {"error": ...} is returned
WorkbookFails ==
    /\ cpc = "flatten" /\ fpc = "sheet"
    /\ calls' = Append(calls, Call("flatten", FALSE))
    /\ outcome' = "error"
    /\ cpc' = "returned"
    /\ UNCHANGED <<splitVars, flatVars, reshapeVars>>

\* write_supabase_file(output_path, full_xlsx) returns: success
WriteFileOk ==
    /\ cpc = "write"
    /\ calls' = Append(calls, Call("write", TRUE))
    /\ outcome' = "success"
    /\ cpc' = "returned"
    /\ UNCHANGED <<splitVars, flatVars, reshapeVars>>

\* write_supabase_file(...) raises: {"error": ...} is returned
WriteFileFails ==
    /\ cpc = "write"
    /\ calls' = Append(calls, Call("write", FALSE))
    /\ outcome' = "error"
    /\ cpc' = "returned"
    /\ UNCHANGED <<splitVars, flatVars, reshapeVars>>

ConvNext ==
    \/ GetLatestOk
    \/ GetLatestFails
    \/ ReadFileOk
    \/ ReadFileFails
    \/ SplitNext
    \/ NoObjects
    \/ ObjectsFound
    \/ FlatNext
    \/ WorkbookClosed
    \/ WorkbookFails
    \/ WriteFileOk
    \/ WriteFileFails

ConvSpec == ConvInit /\ [][ConvNext]_vars

-----------------------------------------------------------------------------
\* Claims about convert_json_to_csv (ConvSpec)

\* The positions in the history of the calls of op
CallsOf(op) == {i \in 1..Len(calls) : calls[i].op = op}

\* C19: write is called at most once, and only after the listing, the
\* read, the extraction of at least one object and the flattening have
\* succeeded, in that order; when the read fails or no object is extracted
\* the run returns an error, nothing was flattened and write was not
\* called; and every run that ends returns an outcome, error or success.
C19_WriteOnceAfterAllStages ==
    /\ Cardinality(CallsOf("write")) <= 1
    /\ \A i \in CallsOf("write") :
          /\ i = 5
          /\ SubSeq(calls, 1, 4) = <<Call("list", TRUE), Call("read", TRUE),
                                     Call("extract", TRUE),
                                     Call("flatten", TRUE)>>
          /\ snippets # <<>> /\ json_objects = snippets
          /\ fpc = "sheet"
    /\ (\E i \in 1..Len(calls) :
            calls[i] \in {Call("read", FALSE), Call("extract", FALSE)})
          => /\ outcome = "error" /\ cpc = "returned"
             /\ fpc = "idle" /\ rows = <<>> /\ sheet = <<>>
             /\ CallsOf("write") = {}
    /\ Call("extract", FALSE) \in {calls[i] : i \in 1..Len(calls)}
          <=> (cpc = "returned" /\ spc = "done" /\ snippets = <<>>)
    /\ cpc = "returned" => outcome \in {"error", "success"}
    /\ outcome = "success" => Call("write", TRUE) = calls[Len(calls)]

\* A run that wrote the workbook and returned success
C19_Witness ==
    /\ cpc = "returned" /\ outcome = "success"
    /\ calls[Len(calls)] = Call("write", TRUE)
    /\ Len(sheet) >= 2


-----------------------------------------------------------------------------
\* Claims about the section and sub-section counters of flatten_json
\* (FlatSpec)

\* The leaves among the first n visited that the call on object o wrote at
\* a key of the given kind
KindUpTo(o, kind, n) ==
    {j \in 1..n : visited[j].obj = o /\ visited[j].kind = kind}

\* The place in visited of the last section_title the call on object o
\* visited among the first n leaves; 0 if it visited none
LastSectionTitle(o, n) ==
    LET S == KindUpTo(o, "section_title", n)
    IN IF S = {} THEN 0 ELSE CHOOSE j \in S : \A k \in S : k <= j

\* The number of sub_section_title keys the call on object o visited among
\* the first n leaves since its most recent section_title
SubsSinceSection(o, n) ==
    Cardinality({j \in KindUpTo(o, "sub_section_title", n) :
                    j > LastSectionTitle(o, n)})

\* C21: in one flatten_json call each sub_section_title is written to
\* column sub_section_title_<s>.<k>, s the number of section_title keys
\* visited so far in the call and k the number of sub_section_title keys
\* visited since the most recent section_title (or since the start); and
\* every section_title resets k to 0 and clears the active sub-section id.
C21_SubSectionIdFromCounters ==
    /\ \A i \in 1..Len(visited) :
          LET l == visited[i]
              s == Cardinality(KindUpTo(l.obj, "section_title", i))
              k == SubsSinceSection(l.obj, i)
          IN /\ l.kind = "sub_section_title" =>
                  /\ l.col = sub_section_title \o <<"_">> \o NatStr(s)
                                \o <<".">> \o NatStr(k)
                  /\ l.sub_id = NatStr(s) \o <<".">> \o NatStr(k)
             /\ l.kind = "section_title" => l.sub_id = NoneId /\ k = 0
             /\ (l.kind \in {"list", "scalar"} /\ k = 0) => l.sub_id = NoneId
    /\ fpc = "recurse" =>
          /\ current_section =
                Cardinality(KindUpTo(oi, "section_title", Len(visited)))
          /\ sub_counter = SubsSinceSection(oi, Len(visited))
          /\ (sub_counter = 0) = (current_sub_id = NoneId)

\* A call that wrote sub-section 1.2, then went on to a second section,
\* wrote a sub_ key under no sub-section id there, and then sub-section 2.1
C21_Witness ==
    \E h, i, j \in 1..Len(visited) :
        /\ h < i /\ i < j
        /\ visited[h].obj = visited[j].obj /\ visited[i].obj = visited[j].obj
        /\ visited[h].col = sub_section_title \o <<"_", "1", ".", "2">>
        /\ visited[i].kind = "scalar" /\ visited[i].sub_id = NoneId
        /\ StartsWith(visited[i].f_key, <<"s", "u", "b", "_">>)
        /\ visited[j].col = sub_section_title \o <<"_", "2", ".", "1">>


-----------------------------------------------------------------------------
\* Claims about the brace balance of split_multiple_jsons (SplitSpec)

\* C22: in every state of the line scan the brace-balance counter is
\* non-negative, and the scanner is inside a block exactly when the balance
\* is greater than 0: a block is closed as soon as its closing braces are
\* at least as many as its opening braces, and never absorbs the lines
\* that follow.
C22_BalanceNonNegative ==
    spc = "scan" =>
        /\ brace_balance >= 0
        /\ (current_block # <<>>) = (brace_balance > 0)
        /\ current_block # <<>> =>
              Count(current_block, "{") > Count(current_block, "}")


-----------------------------------------------------------------------------
\* Claims about the flattener's columns as the reshaper reads them
\* (FlatSpec, with the patterns of format_csv)

\* The section_title leaves that went into row r of rows: every leaf of
\* the batch when the objects are merged, else those of object r
SectionTitleLeaves(r) ==
    {i \in 1..Len(visited) :
        /\ visited[i].kind = "section_title"
        /\ merge \/ visited[i].obj = r}

\* C23: every column flatten_json produces for a section_title key
\* matches the reshaper's pattern section_<field>_<N>, for every batch,
\* one with exactly one section_title included; so that every section
\* title of the input is a section of its own for
\* transform_flat_sheet_to_long, which emits at least one row for each.
C23_SectionTitleColumnMatches ==
    /\ \A l \in Leaves :
          l.kind = "section_title" => SECTION_RE(l.col).matched
    /\ fpc \in {"done", "sheet"} =>
          \A r \in 1..Len(rows) :
              Len(GatherSections(rows[r], <<>>))
                  = Cardinality(SectionTitleLeaves(r))


\* The place in visited of the section_title visited most recently before
\* leaf i, in this call or an earlier one of the batch; 0 if there is none
SectionTitleBefore(i) ==
    LET S == {j \in 1..(i - 1) : visited[j].kind = "section_title"}
    IN IF S = {} THEN 0 ELSE CHOOSE j \in S : \A k \in S : k <= j

\* C24: across a batch flattened with the shared key tracker and merged
\* into one row, for every column sub_section_<field>_<N>.<M> the section
\* number N equals the numeric suffix of the section_title_<N> column
\* produced for the section_title most recently visited before it, so that
\* the reshaper attaches each sub-section to the section it was written
\* under.  (A section_title column without a numeric suffix has no number
\* to compare with and is left to C23.)
C24_SubSectionUnderItsSection ==
    merge =>
        \A i \in 1..Len(visited) :
            LET sub == SUB_SECTION_RE(visited[i].col)
                j == SectionTitleBefore(i)
            IN (sub.matched /\ j # 0 /\ SECTION_RE(visited[j].col).matched)
                => IntOf(Major(sub.num))
                     = IntOf(SECTION_RE(visited[j].col).num)


-----------------------------------------------------------------------------
\* Claims about sub_section_number (ReshapeSpec)

\* C25: two distinct sub-sections of the same section (suffixes N.M1 and
\* N.M2 with M1 # M2, such as 1.1 and 1.10) are emitted by
\* transform_flat_sheet_to_long as records with distinct
\* sub_section_number values.
C25_DistinctSubSectionNumbers ==
    Transformed =>
        \A i, j \in 1..Len(out_rows) :
            (/\ i # j
             /\ out_rows[i].section_number = out_rows[j].section_number
             /\ out_rows[i].sub_section_number # NA
             /\ out_rows[j].sub_section_number # NA
             /\ SourceSub(out_rows[i]) # SourceSub(out_rows[j]))
                => out_rows[i].sub_section_number
                      # out_rows[j].sub_section_number

=============================================================================
